---- MODULE Spec2Model ----
(***************************************************************************)
(* The embedded terminal of dif: TerminalSession (src/terminal.rs), the    *)
(* App fields and operations that drive it (src/app.rs) and the event      *)
(* dispatch of src/input.rs.                                               *)
(*                                                                         *)
(* A session owns a child process, the pty master, the pty writer, the     *)
(* receiving end of the output channel and the terminal-emulation engine   *)
(* (parser).  One reader thread per started session reads the pty and      *)
(* sends the chunks into the channel.  The engine is a black box: of it    *)
(* the model keeps the chunks it was fed, in order, and its screen size.   *)
(***************************************************************************)
EXTENDS Integers, Sequences, FiniteSets, TLC

\* ------------------------------------------------------------------ bounds
MaxStarts == 2      \* children spawned in one run
MaxChunks == 2      \* chunks the reader of one session reads
MaxQuery == 1       \* characters typed into the search prompt
MaxOpens == 1       \* children spawned in one run of the main loop

\* -------------------------------------------------------- program constants
StartRows == 24
StartCols == 80
SCROLLBACK_LEN == 20000

\* A chunk is told apart by the number of lines it scrolls off the screen:
\* the k-th chunk a reader thread reads scrolls k - 1 lines.
Chunk(k) == k - 1

\* Sizes a caller asks for: a zero in either place, a small screen, the
\* size every session starts with.
SizeChoices == {<<0, 3>>, <<2, 0>>, <<2, 3>>, <<StartRows, StartCols>>}

StartOutcomes == {"ok", "openpty", "spawn", "clone_reader", "take_writer"}
WriteOutcomes == {"ok", "write_err", "flush_err"}

\* ------------------------------------------------------------ the session
\* struct TerminalSession; id = 0 stands for Option::None.
NoParser == [fed |-> <<>>, rows |-> 0, cols |-> 0, lines |-> 0, scrollback |-> 0]

NoSession ==
    [id |-> 0, parser |-> NoParser,
     master |-> [rows |-> 0, cols |-> 0], output_rx |-> <<>>,
     rows |-> 0, cols |-> 0, exited |-> FALSE]

Ids == 1..MaxStarts

\* What the operating system holds: the state of every child spawned so far,
\* the children kill() was called on, every reader thread, and (history) the
\* chunks the reader of the installed session has read from the pty.
InitOs ==
    [child   |-> [i \in Ids |-> "none"],
     killed  |-> {},
     reader  |-> [i \in Ids |-> "none"],
     readLog |-> <<>>,
     spawned |-> 0]


\* TerminalSession::start.  outcome names the first step that fails.
\* A child exists from spawn_command on; the reader thread and the session
\* exist only when every step succeeded.  On the two failures after the
\* spawn the local `child` goes out of scope: no kill() is called on it.
start(o, rows, cols, outcome) ==
    LET id == o.spawned + 1 IN
    IF outcome \in {"openpty", "spawn"}
    THEN [os |-> o, s |-> NoSession, ret |-> "Err"]
    ELSE IF outcome \in {"clone_reader", "take_writer"}
    THEN [os |-> [o EXCEPT !.child[id] = "running", !.spawned = id],
          s |-> NoSession, ret |-> "Err"]
    ELSE [os |-> [o EXCEPT !.child[id] = "running", !.spawned = id,
                           !.reader[id] = "running", !.readLog = <<>>],
          s |-> [id |-> id,
                 parser |-> [NoParser EXCEPT !.rows = rows, !.cols = cols],
                 master |-> [rows |-> rows, cols |-> cols],
                 output_rx |-> <<>>,
                 rows |-> rows, cols |-> cols, exited |-> FALSE],
          ret |-> "Ok"]

\* start needs a fresh child id when it gets as far as spawn_command.
CanStart(o, outcome) == outcome \in {"openpty", "spawn"} \/ o.spawned < MaxStarts

Min(a, b) == IF a < b THEN a ELSE b

\* parser.process(&chunk): the engine takes the bytes; lines scrolled off the
\* screen go to the scrollback buffer, and a view that is scrolled back stays
\* on the text it shows.
process(p, chunk) ==
    LET lines == Min(p.lines + chunk, SCROLLBACK_LEN) IN
    [p EXCEPT !.fed = Append(@, chunk),
              !.lines = lines,
              !.scrollback = IF chunk > 0 /\ @ > 0 THEN Min(lines, @ + chunk) ELSE @]

RECURSIVE FeedAll_newest_first(_, _)
\* FeedAll that takes the chunks from the back of the queue.
FeedAll_newest_first(p, q) ==
    IF q = <<>> THEN p
    ELSE FeedAll_newest_first(process(p, q[Len(q)]), SubSeq(q, 1, Len(q) - 1))

RECURSIVE FeedAll(_, _)
\* parser.process(chunk) for every chunk of q, front first.
FeedAll(p, q) == IF q = <<>> THEN p ELSE FeedAll(process(p, Head(q)), Tail(q))

\* TerminalSession::pump_output run without the reader thread in between.
pump_output(s) ==
    [s |-> [s EXCEPT !.parser = FeedAll(s.parser, s.output_rx),
                     !.output_rx = <<>>],
     ret |-> s.output_rx # <<>>]

\* TerminalSession::set_scrollback: the engine clamps to the buffered lines.
set_scrollback(s, rows) == [s EXCEPT !.parser.scrollback = Min(rows, s.parser.lines)]

\* TerminalSession::scrollback
scrollback(s) == s.parser.scrollback

\* resize without the test for a zero dimension.
resize_zero_unchecked(s, rows, cols, pty_ok) ==
    IF rows = s.rows /\ cols = s.cols
    THEN [s |-> s, ret |-> "Ok", os_resize |-> FALSE]
    ELSE IF ~pty_ok THEN [s |-> s, ret |-> "Err", os_resize |-> TRUE]
    ELSE [s |-> [s EXCEPT !.master = [rows |-> rows, cols |-> cols],
                          !.parser.rows = rows, !.parser.cols = cols,
                          !.rows = rows, !.cols = cols],
          ret |-> "Ok", os_resize |-> TRUE]

\* resize that stores the new size before it asks the pty for it.
resize_store_first(s, rows, cols, pty_ok) ==
    IF rows = 0 \/ cols = 0 THEN [s |-> s, ret |-> "Ok", os_resize |-> FALSE]
    ELSE IF rows = s.rows /\ cols = s.cols
    THEN [s |-> s, ret |-> "Ok", os_resize |-> FALSE]
    ELSE IF ~pty_ok
    THEN [s |-> [s EXCEPT !.rows = rows, !.cols = cols],
          ret |-> "Err", os_resize |-> TRUE]
    ELSE [s |-> [s EXCEPT !.master = [rows |-> rows, cols |-> cols],
                          !.parser.rows = rows, !.parser.cols = cols,
                          !.rows = rows, !.cols = cols],
          ret |-> "Ok", os_resize |-> TRUE]

\* TerminalSession::resize.  pty_ok: master.resize succeeds.
resize(s, rows, cols, pty_ok) ==
    IF rows = 0 \/ cols = 0 THEN [s |-> s, ret |-> "Ok", os_resize |-> FALSE]
    ELSE IF rows = s.rows /\ cols = s.cols
    THEN [s |-> s, ret |-> "Ok", os_resize |-> FALSE]
    ELSE IF ~pty_ok THEN [s |-> s, ret |-> "Err", os_resize |-> TRUE]
    ELSE [s |-> [s EXCEPT !.master = [rows |-> rows, cols |-> cols],
                          !.parser.rows = rows, !.parser.cols = cols,
                          !.rows = rows, !.cols = cols],
          ret |-> "Ok", os_resize |-> TRUE]

\* TerminalSession::is_exited
is_exited(s) == s.exited

\* child.try_wait(): Some(status) once the process is gone.
try_wait(o, s) == IF o.child[s.id] = "running" THEN "None" ELSE "Some"

\* poll_exit_message that reports the exit and forgets to set the flag.
poll_exit_message_flag_unset(o, s, wait_ok) ==
    IF s.exited THEN [s |-> s, ret |-> "None"]
    ELSE IF ~wait_ok THEN [s |-> s, ret |-> "Err"]
    ELSE IF o.child[s.id] # "running" THEN [s |-> s, ret |-> "Some"]
    ELSE [s |-> s, ret |-> "None"]

\* TerminalSession::poll_exit_message.  wait_ok: try_wait does not fail.
\* ret: "Err", "None" or "Some" (for Ok(Some(status text))).
poll_exit_message(o, s, wait_ok) ==
    IF s.exited THEN [s |-> s, ret |-> "None"]
    ELSE IF ~wait_ok THEN [s |-> s, ret |-> "Err"]
    ELSE IF try_wait(o, s) = "Some"
    THEN [s |-> [s EXCEPT !.exited = TRUE], ret |-> "Some"]
    ELSE [s |-> s, ret |-> "None"]

\* impl Drop for TerminalSession: child.kill(), then the fields are released.
drop(o, s) ==
    IF s.id = 0 THEN o
    ELSE [o EXCEPT !.killed = @ \cup {s.id},
                   !.child[s.id] = IF @ = "running" THEN "killed" ELSE @]
\* ================================================================ the App
\* ---------------------------------------------------------- key encoding
Key(code, ch, mods) == [code |-> code, ch |-> ch, mods |-> mods]

None == [some |-> FALSE, bytes |-> <<>>]
Some(bytes) == [some |-> TRUE, bytes |-> bytes]

\* ctrl_code that knows the lower-case letters only.
ctrl_code_lower_only(ch) ==
    IF ch \in 97..122 THEN Some(<<(ch - 97) + 1>>) ELSE None

\* fn ctrl_code(ch: char) -> Option<u8>
ctrl_code(ch) ==
    IF ch \in {32, 50, 64} THEN Some(<<0>>)
    ELSE IF ch \in 97..122 THEN Some(<<(ch - 97) + 1>>)
    ELSE IF ch \in 65..90 THEN Some(<<(ch - 65) + 1>>)
    ELSE IF ch \in {51, 91} THEN Some(<<27>>)
    ELSE IF ch \in {52, 92} THEN Some(<<28>>)
    ELSE IF ch \in {53, 93} THEN Some(<<29>>)
    ELSE IF ch \in {54, 94} THEN Some(<<30>>)
    ELSE IF ch \in {55, 47, 95} THEN Some(<<31>>)
    ELSE IF ch \in {56, 63} THEN Some(<<127>>)
    ELSE None

\* char::encode_utf8
encode_utf8(ch) ==
    IF ch < 128 THEN <<ch>>
    ELSE IF ch < 2048 THEN <<192 + (ch \div 64), 128 + (ch % 64)>>
    ELSE IF ch < 65536
    THEN <<224 + (ch \div 4096), 128 + ((ch \div 64) % 64), 128 + (ch % 64)>>
    ELSE <<240 + (ch \div 262144), 128 + ((ch \div 4096) % 64),
           128 + ((ch \div 64) % 64), 128 + (ch % 64)>>

\* The match of encode_key_event, before the ALT prefix.
encode_code(event) ==
    LET code == event.code
        csi(b) == Some(<<27, 91, b>>)
        tilde(digits) == Some(<<27, 91>> \o digits \o <<126>>)
    IN
    CASE code = "Enter" -> Some(<<13>>)
      [] code = "Tab" -> IF "SHIFT" \in event.mods THEN csi(90) ELSE Some(<<9>>)
      [] code = "BackTab" -> csi(90)
      [] code = "Backspace" -> Some(<<127>>)
      [] code = "Esc" -> Some(<<27>>)
      [] code = "Left" -> csi(68)
      [] code = "Right" -> csi(67)
      [] code = "Up" -> csi(65)
      [] code = "Down" -> csi(66)
      [] code = "Home" -> csi(72)
      [] code = "End" -> csi(70)
      [] code = "PageUp" -> tilde(<<53>>)
      [] code = "PageDown" -> tilde(<<54>>)
      [] code = "Insert" -> tilde(<<50>>)
      [] code = "Delete" -> tilde(<<51>>)
      [] code = "F" /\ event.ch \in 1..4 -> Some(<<27, 79, 79 + event.ch>>)
      [] code = "F" /\ event.ch = 5 -> tilde(<<49, 53>>)
      [] code = "F" /\ event.ch \in 6..8 -> tilde(<<49, 49 + event.ch>>)
      [] code = "F" /\ event.ch \in 9..10 -> tilde(<<50, 39 + event.ch>>)
      [] code = "F" /\ event.ch \in 11..12 -> tilde(<<50, 40 + event.ch>>)
      [] code = "Char" /\ "CONTROL" \in event.mods -> ctrl_code(event.ch)
      [] code = "Char" -> Some(encode_utf8(event.ch))
      [] OTHER -> None

\* encode_key_event without the ALT prefix.
encode_key_event_no_meta(event) == encode_code(event)

\* encode_key_event that drops a named key pressed with CTRL.
encode_key_event_ctrl_named(event) ==
    LET r == IF "CONTROL" \in event.mods /\ event.code # "Char" THEN None
             ELSE encode_code(event)
    IN
    IF r.some /\ "ALT" \in event.mods /\ r.bytes # <<>>
    THEN Some(<<27>> \o r.bytes)
    ELSE r

\* fn encode_key_event(event: KeyEvent) -> Option<Vec<u8>>
encode_key_event(event) ==
    LET r == encode_code(event) IN
    IF r.some /\ "ALT" \in event.mods /\ r.bytes # <<>>
    THEN Some(<<27>> \o r.bytes)
    ELSE r

\* ------------------------------------------------- writes to the session
\* TerminalSession::send_key.  write: what write_all and flush do; flush:
\* what writer.flush() returned, "none" when it was not called.
send_key(s, key, write) ==
    LET bytes == encode_key_event(key) IN
    IF ~bytes.some THEN [s |-> s, ret |-> "Ok", wrote |-> <<>>, flush |-> "none"]
    ELSE IF write = "write_err"
    THEN [s |-> s, ret |-> "Err", wrote |-> <<>>, flush |-> "none"]
    ELSE [s |-> s, ret |-> "Ok", wrote |-> bytes.bytes,
          flush |-> IF write = "flush_err" THEN "err" ELSE "ok"]

\* TerminalSession::send_text
send_text(s, text, write) ==
    IF write = "write_err"
    THEN [s |-> s, ret |-> "Err", wrote |-> <<>>, flush |-> "none"]
    ELSE [s |-> s, ret |-> "Ok", wrote |-> text,
          flush |-> IF write = "flush_err" THEN "err" ELSE "ok"]

\* ----------------------------------------------------- the screen snapshot
\* The text of the n-th line the engine holds (scrollback first).  The lines
\* the shell wrote are, in turn, "aa", "ab", an empty line and "A"; lines it
\* did not reach are blank.
LineText(p, n) ==
    IF n < 1 \/ n > p.lines + Len(p.fed) THEN <<>>
    ELSE IF n % 4 = 1 THEN <<97, 97>>
    ELSE IF n % 4 = 2 THEN <<97, 98>>
    ELSE IF n % 4 = 3 THEN <<>>
    ELSE <<65>>

\* TerminalSession::plain_rows: the rows the view shows, as text.
plain_rows(s) ==
    IF s.id = 0 THEN <<>>
    ELSE [i \in 1..s.parser.rows |->
            LineText(s.parser, (s.parser.lines - s.parser.scrollback) + i)]

\* ------------------------------------------------------------ struct App
InitApp ==
    [settings_open |-> FALSE,
     terminal_open |-> FALSE,
     terminal_scrollback |-> 0,
     terminal_copy_mode |-> FALSE,
     terminal_search_open |-> FALSE,
     terminal_search_query |-> <<>>,
     terminal_last_search |-> <<>>,
     terminal_cursor_row |-> 0,
     terminal_cursor_col |-> 0,
     terminal_selection_anchor |-> <<>>,      \* <<>> is None, <<row, col>> Some
     terminal_view_rows |-> 0,
     terminal_view_cols |-> 0,
     unstaged |-> <<>>,                       \* paths, in the order of git status
     staged |-> <<>>,
     focus |-> "Unstaged",
     unstaged_selected |-> <<>>,              \* <<>> is None, <<idx>> Some(idx)
     staged_selected |-> <<>>,
     pending_undo_confirmation |-> <<>>,      \* <<>> is None, <<path>> Some
     confirm_undo_to_mainline |-> TRUE,       \* settings.confirm_undo_to_mainline
     git_panel_open |-> FALSE,
     git_panel_mode |-> "Browse",
     status |-> [kind |-> "Info", text |-> "Ready"]]

\* What a handler works on and what it hands back: the App with its session,
\* the processes, the Result it returns, the bytes it wrote to the pty and
\* what the flush after them returned,
\* whether it called the pty's resize, the set_text calls it made on the
\* clipboard and the text it gave them, the App method input.rs called, and
\* (over) whether it would spawn more children than the model counts, and
\* (git) the paths it reverted with git::undo_file_to_mainline.
World(a, s, o) ==
    [app |-> a, ts |-> s, os |-> o, ret |-> "Ok", wrote |-> <<>>,
     flush |-> "none", os_resize |-> FALSE, clip |-> 0, text |-> <<>>,
     call |-> "none", over |-> FALSE, git |-> <<>>]

\* What the environment does to one handler: the first failing step of a
\* start, the fate of a write, and whether try_wait, the pty resize, git,
\* the settings file and the clipboard work.
EnvOk == [start |-> "ok", write |-> "ok", wait_ok |-> TRUE, pty_ok |-> TRUE,
          refresh_ok |-> TRUE, save_ok |-> TRUE, clip |-> "ok",
          undo_ok |-> TRUE, panel_open |-> TRUE, panel_mode |-> "Browse"]

\* One thing goes wrong at a time; a handler returns at its first error.
\* What can go wrong in a start, in a write after it, in a tick, in a frame,
\* in git, with the settings file and with the clipboard.
StartEnvs == {[EnvOk EXCEPT !.start = x] : x \in StartOutcomes}
WriteEnvs == StartEnvs \cup {[EnvOk EXCEPT !.write = x] : x \in WriteOutcomes}
TickEnvs == {EnvOk, [EnvOk EXCEPT !.wait_ok = FALSE],
             [EnvOk EXCEPT !.refresh_ok = FALSE], [EnvOk EXCEPT !.save_ok = FALSE]}
ResizeEnvs == {EnvOk, [EnvOk EXCEPT !.pty_ok = FALSE]}
RefreshEnvs == {EnvOk, [EnvOk EXCEPT !.refresh_ok = FALSE]}
SaveEnvs == {EnvOk, [EnvOk EXCEPT !.save_ok = FALSE]}
ClipEnvs == {[EnvOk EXCEPT !.clip = x] : x \in {"ok", "no_access", "set_text"}}
EventEnvs == WriteEnvs \cup RefreshEnvs

set_status_info(w, text) == [w EXCEPT !.app.status = [kind |-> "Info", text |-> text]]
set_status_warn(w, text) == [w EXCEPT !.app.status = [kind |-> "Warn", text |-> text]]
set_status_error(w, text) == [w EXCEPT !.app.status = [kind |-> "Error", text |-> text]]

saturating_sub(a, b) == IF a > b THEN a - b ELSE 0

\* ensure_live_terminal_session that starts a session only when there is
\* none.
ensure_live_terminal_session_if_none(w, env) ==
    IF w.ts.id # 0 THEN [w EXCEPT !.ret = "Ok"]
    ELSE IF ~CanStart(w.os, env.start) THEN [w EXCEPT !.ret = "Err", !.over = TRUE]
    ELSE LET r == start(w.os, StartRows, StartCols, env.start) IN
         IF r.ret = "Err" THEN [w EXCEPT !.os = r.os, !.ret = "Err"]
         ELSE [w EXCEPT !.os = r.os, !.ts = r.s,
                        !.app.terminal_scrollback = 0, !.ret = "Ok"]

\* App::ensure_live_terminal_session
ensure_live_terminal_session(w, env) ==
    LET must_start == w.ts.id = 0 \/ is_exited(w.ts) IN
    IF ~must_start THEN [w EXCEPT !.ret = "Ok"]
    ELSE IF ~CanStart(w.os, env.start) THEN [w EXCEPT !.ret = "Err", !.over = TRUE]
    ELSE LET r == start(w.os, StartRows, StartCols, env.start) IN
         IF r.ret = "Err" THEN [w EXCEPT !.os = r.os, !.ret = "Err"]
         ELSE [w EXCEPT !.os = drop(r.os, w.ts), !.ts = r.s,
                        !.app.terminal_scrollback = 0, !.ret = "Ok"]

\* App::open_terminal
open_terminal(w, env) ==
    LET a == [w EXCEPT !.app.settings_open = FALSE,
                       !.app.terminal_open = TRUE,
                       !.app.terminal_copy_mode = FALSE,
                       !.app.terminal_search_open = FALSE,
                       !.app.terminal_search_query = <<>>,
                       !.app.terminal_selection_anchor = <<>>,
                       !.app.terminal_cursor_row = 0,
                       !.app.terminal_cursor_col = 0,
                       !.app.terminal_scrollback = 0]
        b == ensure_live_terminal_session(a, env)
    IN
    IF b.ret = "Err" THEN b
    ELSE LET s == pump_output(set_scrollback(b.ts, 0)).s IN
         set_status_info([b EXCEPT !.ts = s,
                                   !.app.terminal_scrollback = scrollback(s)],
                         "Terminal open (interactive)")

\* App::refresh, of which the model keeps whether git answered.
refresh(w, env) == [w EXCEPT !.ret = IF env.refresh_ok THEN "Ok" ELSE "Err"]

\* App::close_terminal
close_terminal(w, env) ==
    IF ~w.app.terminal_open THEN w
    ELSE LET a == set_status_info(
                    [w EXCEPT !.app.terminal_open = FALSE,
                              !.app.terminal_copy_mode = FALSE,
                              !.app.terminal_search_open = FALSE,
                              !.app.terminal_search_query = <<>>,
                              !.app.terminal_selection_anchor = <<>>,
                              !.app.terminal_scrollback = 0,
                              !.app.terminal_cursor_row = 0,
                              !.app.terminal_cursor_col = 0,
                              !.app.terminal_view_rows = 0,
                              !.app.terminal_view_cols = 0,
                              !.os = drop(w.os, w.ts),
                              !.ts = NoSession],
                    "Terminal closed")
         IN IF refresh(a, env).ret = "Err"
            THEN set_status_error(a, "refresh") ELSE a

\* App::terminal_send_key
terminal_send_key(w, key, env) ==
    LET a == ensure_live_terminal_session(w, env) IN
    IF a.ret = "Err" THEN a
    ELSE LET r == send_key(a.ts, key, env.write) IN
         IF r.ret = "Err" THEN [a EXCEPT !.ret = "Err"]
         ELSE LET s == pump_output(r.s).s IN
              [a EXCEPT !.ts = s, !.wrote = r.wrote, !.flush = r.flush,
                        !.app.terminal_scrollback = scrollback(s)]

\* App::terminal_send_text
terminal_send_text(w, text, env) ==
    LET a == ensure_live_terminal_session(w, env) IN
    IF a.ret = "Err" THEN a
    ELSE LET r == send_text(a.ts, text, env.write) IN
         IF r.ret = "Err" THEN [a EXCEPT !.ret = "Err"]
         ELSE LET s == pump_output(r.s).s IN
              [a EXCEPT !.ts = s, !.wrote = r.wrote, !.flush = r.flush,
                        !.app.terminal_scrollback = scrollback(s)]

\* App::terminal_resize
terminal_resize(w, rows, cols, env) ==
    IF w.ts.id = 0 THEN [w EXCEPT !.ret = "Ok"]
    ELSE LET r == resize(w.ts, rows, cols, env.pty_ok) IN
         [w EXCEPT !.ts = r.s, !.ret = r.ret, !.os_resize = r.os_resize]

\* scroll_terminal that does nothing.
scroll_terminal_nothing(w, delta) == w

\* App::scroll_terminal
scroll_terminal(w, delta) ==
    IF w.ts.id = 0 THEN w
    ELSE LET target == IF delta < 0
                       THEN saturating_sub(w.app.terminal_scrollback, -delta)
                       ELSE w.app.terminal_scrollback + delta
             s == set_scrollback(w.ts, target)
             max_row == saturating_sub(w.app.terminal_view_rows, 1)
         IN [w EXCEPT !.ts = s,
                      !.app.terminal_scrollback = scrollback(s),
                      !.app.terminal_cursor_row = Min(@, max_row)]

\* set_terminal_viewport that does not clamp the cursor.
set_terminal_viewport_no_clamp(w, rows, cols, env) ==
    terminal_resize(
        [w EXCEPT !.app.terminal_view_rows = rows,
                  !.app.terminal_view_cols = cols],
        rows % 65536, cols % 65536, env)

\* set_terminal_viewport that clamps the anchor as it clamps the cursor.
set_terminal_viewport_clamp_anchor(w, rows, cols, env) ==
    terminal_resize(
        [w EXCEPT !.app.terminal_view_rows = rows,
                  !.app.terminal_view_cols = cols,
                  !.app.terminal_cursor_row = Min(@, saturating_sub(rows, 1)),
                  !.app.terminal_cursor_col = Min(@, saturating_sub(cols, 1)),
                  !.app.terminal_selection_anchor =
                     IF @ = <<>> THEN @
                     ELSE <<Min(@[1], saturating_sub(rows, 1)),
                            Min(@[2], saturating_sub(cols, 1))>>],
        rows % 65536, cols % 65536, env)

\* App::set_terminal_viewport; `as u16` keeps the low 16 bits.
set_terminal_viewport(w, rows, cols, env) ==
    terminal_resize(
        [w EXCEPT !.app.terminal_view_rows = rows,
                  !.app.terminal_view_cols = cols,
                  !.app.terminal_cursor_row = Min(@, saturating_sub(rows, 1)),
                  !.app.terminal_cursor_col = Min(@, saturating_sub(cols, 1))],
        rows % 65536, cols % 65536, env)

\* terminal_enter_copy_mode that keeps the anchor and the cursor's column.
terminal_enter_copy_mode_keep(w) ==
    set_status_info(
        [w EXCEPT !.app.terminal_copy_mode = TRUE,
                  !.app.terminal_search_open = FALSE,
                  !.app.terminal_search_query = <<>>,
                  !.app.terminal_cursor_row =
                      saturating_sub(w.app.terminal_view_rows, 1)],
        "Copy mode")

\* App::terminal_enter_copy_mode
terminal_enter_copy_mode(w) ==
    set_status_info(
        [w EXCEPT !.app.terminal_copy_mode = TRUE,
                  !.app.terminal_search_open = FALSE,
                  !.app.terminal_search_query = <<>>,
                  !.app.terminal_selection_anchor = <<>>,
                  !.app.terminal_cursor_row =
                      saturating_sub(w.app.terminal_view_rows, 1),
                  !.app.terminal_cursor_col = 0],
        "Copy mode")

\* terminal_exit_copy_mode that leaves the selection anchor.
terminal_exit_copy_mode_keep_anchor(w) ==
    IF ~w.app.terminal_copy_mode THEN w
    ELSE set_status_info(
            [w EXCEPT !.app.terminal_copy_mode = FALSE,
                      !.app.terminal_search_open = FALSE,
                      !.app.terminal_search_query = <<>>],
            "Terminal interactive mode")

\* App::terminal_exit_copy_mode
terminal_exit_copy_mode(w) ==
    IF ~w.app.terminal_copy_mode THEN w
    ELSE set_status_info(
            [w EXCEPT !.app.terminal_copy_mode = FALSE,
                      !.app.terminal_search_open = FALSE,
                      !.app.terminal_search_query = <<>>,
                      !.app.terminal_selection_anchor = <<>>],
            "Terminal interactive mode")

RECURSIVE move_rows(_, _, _)
\* The two row loops of terminal_move_cursor: n steps up (up) or down.
move_rows(w, up, n) ==
    IF n = 0 THEN w
    ELSE IF up
    THEN move_rows(IF w.app.terminal_cursor_row > 0
                   THEN [w EXCEPT !.app.terminal_cursor_row = @ - 1]
                   ELSE scroll_terminal(w, 1),
                   up, n - 1)
    ELSE move_rows(LET max_row == saturating_sub(w.app.terminal_view_rows, 1) IN
                   IF w.app.terminal_cursor_row < max_row
                   THEN [w EXCEPT !.app.terminal_cursor_row = @ + 1]
                   ELSE IF w.app.terminal_scrollback > 0
                   THEN scroll_terminal(w, -1)
                   ELSE w,
                   up, n - 1)

\* App::terminal_move_cursor
terminal_move_cursor(w, row_delta, col_delta) ==
    LET a == IF row_delta < 0 THEN move_rows(w, TRUE, -row_delta)
             ELSE move_rows(w, FALSE, row_delta)
    IN
    IF col_delta < 0
    THEN [a EXCEPT !.app.terminal_cursor_col = saturating_sub(@, -col_delta)]
    ELSE IF col_delta > 0
    THEN [a EXCEPT !.app.terminal_cursor_col =
             Min(@ + col_delta, saturating_sub(a.app.terminal_view_cols, 1))]
    ELSE a

\* terminal_toggle_selection_anchor that moves a set anchor to the cursor.
terminal_toggle_selection_anchor_move(w) ==
    set_status_info(
        [w EXCEPT !.app.terminal_selection_anchor =
            <<w.app.terminal_cursor_row, w.app.terminal_cursor_col>>],
        "Selection anchor set")

\* App::terminal_toggle_selection_anchor
terminal_toggle_selection_anchor(w) ==
    IF w.app.terminal_selection_anchor # <<>>
    THEN set_status_info([w EXCEPT !.app.terminal_selection_anchor = <<>>],
                         "Selection cleared")
    ELSE set_status_info(
            [w EXCEPT !.app.terminal_selection_anchor =
                <<w.app.terminal_cursor_row, w.app.terminal_cursor_col>>],
            "Selection anchor set")

\* order_positions that keeps the order of its arguments.
order_positions_as_given(a, b) == <<a, b>>

\* fn order_positions
order_positions(a, b) ==
    IF a[1] < b[1] \/ (a[1] = b[1] /\ a[2] <= b[2]) THEN <<a, b>> ELSE <<b, a>>

\* The text of one row of the selection, with the newline that follows it.
yank_row(rows, row_idx, first, final) ==
    LET chars == IF row_idx + 1 \in DOMAIN rows THEN rows[row_idx + 1] ELSE <<>>
        from == IF row_idx = first[1] THEN Min(first[2], Len(chars)) ELSE 0
        to_exclusive == IF row_idx = final[1] THEN Min(final[2] + 1, Len(chars))
                        ELSE Len(chars)
    IN (IF from < to_exclusive THEN SubSeq(chars, from + 1, to_exclusive) ELSE <<>>)
       \o (IF row_idx < final[1] THEN <<10>> ELSE <<>>)

RECURSIVE yank_text(_, _, _, _)
\* The loop of terminal_yank_selection over start_row..=end_row.
yank_text(rows, row_idx, first, final) ==
    IF row_idx > final[1] THEN <<>>
    ELSE yank_row(rows, row_idx, first, final) \o yank_text(rows, row_idx + 1, first, final)

\* order_positions and the extraction loop of terminal_yank_selection.
selection_text(rows, anchor, cursor) ==
    LET ord == order_positions(anchor, cursor) IN
    yank_text(rows, ord[1][1], ord[1], ord[2])

\* terminal_yank_selection that clears the anchor before it opens the
\* clipboard.
terminal_yank_selection_clear_first(w, env) ==
    LET anchor == w.app.terminal_selection_anchor
        rows == plain_rows(w.ts)
        cursor == <<w.app.terminal_cursor_row, w.app.terminal_cursor_col>>
        v == [w EXCEPT !.app.terminal_selection_anchor = <<>>]
    IN
    IF anchor = <<>> THEN set_status_warn(w, "No selection anchor; press v first")
    ELSE IF rows = <<>> THEN set_status_warn(w, "Nothing to copy")
    ELSE LET out == selection_text(rows, anchor, cursor) IN
         IF out = <<>> THEN set_status_warn(w, "Selection is empty")
         ELSE IF env.clip = "no_access" THEN [v EXCEPT !.ret = "Err"]
         ELSE IF env.clip = "set_text"
         THEN [v EXCEPT !.ret = "Err", !.clip = 1, !.text = out]
         ELSE set_status_info([v EXCEPT !.clip = 1, !.text = out], "Copied")

\* terminal_yank_selection that, with no anchor, selects the character under
\* the cursor.
terminal_yank_selection_from_cursor(w, env) ==
    LET cursor == <<w.app.terminal_cursor_row, w.app.terminal_cursor_col>>
        anchor == IF w.app.terminal_selection_anchor = <<>> THEN cursor
                  ELSE w.app.terminal_selection_anchor
        rows == plain_rows(w.ts)
    IN
    IF rows = <<>> THEN set_status_warn(w, "Nothing to copy")
    ELSE LET out == selection_text(rows, anchor, cursor) IN
         IF out = <<>> THEN set_status_warn(w, "Selection is empty")
         ELSE IF env.clip = "no_access" THEN [w EXCEPT !.ret = "Err"]
         ELSE IF env.clip = "set_text"
         THEN [w EXCEPT !.ret = "Err", !.clip = 1, !.text = out]
         ELSE set_status_info(
                 [w EXCEPT !.app.terminal_selection_anchor = <<>>,
                           !.clip = 1, !.text = out],
                 "Copied")

\* App::terminal_yank_selection.  env.clip: Clipboard::new fails
\* ("no_access"), set_text fails ("set_text") or both work.
terminal_yank_selection(w, env) ==
    LET anchor == w.app.terminal_selection_anchor
        rows == plain_rows(w.ts)
        cursor == <<w.app.terminal_cursor_row, w.app.terminal_cursor_col>>
    IN
    IF anchor = <<>> THEN set_status_warn(w, "No selection anchor; press v first")
    ELSE IF rows = <<>> THEN set_status_warn(w, "Nothing to copy")
    ELSE LET out == selection_text(rows, anchor, cursor) IN
         IF out = <<>> THEN set_status_warn(w, "Selection is empty")
         ELSE IF env.clip = "no_access" THEN [w EXCEPT !.ret = "Err"]
         ELSE IF env.clip = "set_text"
         THEN [w EXCEPT !.ret = "Err", !.clip = 1, !.text = out]
         ELSE set_status_info(
                 [w EXCEPT !.app.terminal_selection_anchor = <<>>,
                           !.clip = 1, !.text = out],
                 "Copied")

\* terminal_open_search that opens an empty prompt.
terminal_open_search_empty(w) ==
    [w EXCEPT !.app.terminal_search_open = TRUE,
              !.app.terminal_search_query = <<>>]

\* App::terminal_open_search
terminal_open_search(w) ==
    [w EXCEPT !.app.terminal_search_open = TRUE,
              !.app.terminal_search_query = w.app.terminal_last_search]

\* terminal_cancel_search that keeps the text of the prompt.
terminal_cancel_search_keep_text(w) ==
    set_status_info([w EXCEPT !.app.terminal_search_open = FALSE], "Search cancelled")

\* App::terminal_cancel_search
terminal_cancel_search(w) ==
    set_status_info([w EXCEPT !.app.terminal_search_open = FALSE,
                              !.app.terminal_search_query = <<>>],
                    "Search cancelled")

\* App::terminal_search_append
terminal_search_append(w, ch) == [w EXCEPT !.app.terminal_search_query = Append(@, ch)]

\* App::terminal_search_backspace
terminal_search_backspace(w) ==
    [w EXCEPT !.app.terminal_search_query =
        IF @ = <<>> THEN @ ELSE SubSeq(@, 1, Len(@) - 1)]

\* char::is_whitespace for the characters the model types.
is_whitespace(ch) == ch \in {9, 10, 11, 12, 13, 32}

RECURSIVE trim_start(_)
trim_start(text) ==
    IF text # <<>> /\ is_whitespace(Head(text)) THEN trim_start(Tail(text)) ELSE text

RECURSIVE trim_end(_)
trim_end(text) ==
    IF text # <<>> /\ is_whitespace(text[Len(text)])
    THEN trim_end(SubSeq(text, 1, Len(text) - 1)) ELSE text

\* trim that returns the text as it is.
trim_nothing(text) == text

\* str::trim
trim(text) == trim_end(trim_start(text))

RECURSIVE find_from(_, _, _)
\* The loop of find_query_in_line: the first idx in idx..=len-qlen that matches.
\* -2 is the panic of a slice that ends beyond the line.
find_from(line, query, idx) ==
    IF idx > saturating_sub(Len(line), Len(query)) THEN -1
    ELSE IF idx + Len(query) > Len(line) THEN -2
    ELSE IF SubSeq(line, idx + 1, idx + Len(query)) = query THEN idx
    ELSE find_from(line, query, idx + 1)

\* find_query_in_line without the test of the two lengths.
find_query_in_line_unguarded(line, query, start_col) ==
    IF query = <<>> THEN -1
    ELSE find_from(line, query, Min(start_col, Len(line)))

\* find_query_in_line that searches the whole line.
find_query_in_line_from_0(line, query, start_col) ==
    IF query = <<>> THEN -1
    ELSE IF Len(query) > Len(line) THEN -1
    ELSE find_from(line, query, 0)

\* fn find_query_in_line; -1 is None.
find_query_in_line(line, query, start_col) ==
    IF query = <<>> THEN -1
    ELSE IF Len(query) > Len(line) THEN -1
    ELSE find_from(line, query, Min(start_col, Len(line)))

RECURSIVE find_rows(_, _, _, _, _)
\* One pass of terminal_search_next over the rows row_idx..last (0-based);
\* the first row is searched from first_col.  <<>> is None.
find_rows(rows, query, row_idx, last, first_col) ==
    IF row_idx > last THEN <<>>
    ELSE LET col == find_query_in_line(rows[row_idx + 1], query, first_col) IN
         IF col >= 0 THEN <<row_idx, col>>
         ELSE find_rows(rows, query, row_idx + 1, last, 0)

\* terminal_search_next whose second pass goes on to the start of the
\* cursor's row.
terminal_search_next_wrap_row(w) ==
    LET query == IF w.app.terminal_search_open
                 THEN trim(w.app.terminal_search_query)
                 ELSE trim(w.app.terminal_last_search)
    IN
    IF query = <<>>
    THEN [set_status_warn(w, "Search query is empty") EXCEPT
             !.app.terminal_search_open = FALSE]
    ELSE LET a == [w EXCEPT !.app.terminal_last_search = query,
                            !.app.terminal_search_open = FALSE]
             rows == plain_rows(w.ts)
         IN
         IF rows = <<>> THEN set_status_warn(a, "No terminal output to search")
         ELSE LET start_row == Min(a.app.terminal_cursor_row, Len(rows) - 1)
                  start_col == a.app.terminal_cursor_col + 1
                  pass0 == find_rows(rows, query, start_row, Len(rows) - 1, start_col)
                  found == IF pass0 # <<>> THEN pass0
                           ELSE find_rows(rows, query, 0, start_row, 0)
              IN
              IF found # <<>>
              THEN set_status_info(
                      [a EXCEPT !.app.terminal_cursor_row =
                                   Min(found[1], saturating_sub(a.app.terminal_view_rows, 1)),
                                !.app.terminal_cursor_col =
                                   Min(found[2], saturating_sub(a.app.terminal_view_cols, 1))],
                      "Found")
              ELSE set_status_warn(a, "No match")

\* App::terminal_search_next
terminal_search_next(w) ==
    LET query == IF w.app.terminal_search_open
                 THEN trim(w.app.terminal_search_query)
                 ELSE trim(w.app.terminal_last_search)
    IN
    IF query = <<>>
    THEN [set_status_warn(w, "Search query is empty") EXCEPT
             !.app.terminal_search_open = FALSE]
    ELSE LET a == [w EXCEPT !.app.terminal_last_search = query,
                            !.app.terminal_search_open = FALSE]
             rows == plain_rows(w.ts)
         IN
         IF rows = <<>> THEN set_status_warn(a, "No terminal output to search")
         ELSE LET start_row == Min(a.app.terminal_cursor_row, Len(rows) - 1)
                  start_col == a.app.terminal_cursor_col + 1
                  pass0 == find_rows(rows, query, start_row, Len(rows) - 1, start_col)
                  found == IF pass0 # <<>> THEN pass0
                           ELSE find_rows(rows, query, 0, start_row - 1, 0)
              IN
              IF found # <<>>
              THEN set_status_info(
                      [a EXCEPT !.app.terminal_cursor_row =
                                   Min(found[1], saturating_sub(a.app.terminal_view_rows, 1)),
                                !.app.terminal_cursor_col =
                                   Min(found[2], saturating_sub(a.app.terminal_view_cols, 1))],
                      "Found")
              ELSE set_status_warn(a, "No match")

\* App::flush_settings_if_dirty, of which the model keeps whether the
\* settings file could be written.
flush_settings_if_dirty(w, env) == [w EXCEPT !.ret = IF env.save_ok THEN "Ok" ELSE "Err"]

\* App::toggle_settings_panel
toggle_settings_panel(w, env) ==
    LET a == [w EXCEPT !.app.terminal_open = FALSE,
                       !.app.terminal_copy_mode = FALSE,
                       !.app.terminal_search_open = FALSE,
                       !.app.terminal_search_query = <<>>,
                       !.app.terminal_selection_anchor = <<>>,
                       !.app.settings_open = ~w.app.settings_open]
    IN
    IF a.app.settings_open THEN set_status_info(a, "Settings open")
    ELSE IF flush_settings_if_dirty(a, env).ret = "Err"
    THEN set_status_error(a, "settings")
    ELSE set_status_info(a, "Settings closed")

\* App::close_settings_panel
close_settings_panel(w, env) ==
    IF ~w.app.settings_open THEN w
    ELSE LET a == [w EXCEPT !.app.settings_open = FALSE] IN
         IF flush_settings_if_dirty(a, env).ret = "Err"
         THEN set_status_error(a, "settings")
         ELSE set_status_info(a, "Settings closed")

\* ------------------------------------------------ the lists of the main view
\* fn selected_unstaged_path / selected_staged_path: <<>> or <<path>>.
selected_path(list, selected) ==
    IF selected # <<>> /\ selected[1] < Len(list) THEN <<list[selected[1] + 1]>> ELSE <<>>

\* fn restore_unstaged_selection / restore_staged_selection
restore_selection(list, selected, preferred_path) ==
    LET found == {i \in 1..Len(list) : preferred_path # <<>> /\ list[i] = preferred_path[1]}
    IN IF list = <<>> THEN <<>>
       ELSE IF found # {} THEN <<(CHOOSE i \in found : \A j \in found : i <= j) - 1>>
       ELSE IF selected # <<>> /\ selected[1] < Len(list) THEN selected
       ELSE <<0>>

\* fn normalize_focus
normalize_focus(a) ==
    LET f == IF a.focus = "Unstaged" /\ a.unstaged = <<>> /\ a.staged # <<>> THEN "Staged"
             ELSE IF a.focus = "Staged" /\ a.staged = <<>> /\ a.unstaged # <<>>
             THEN "Unstaged"
             ELSE a.focus
    IN [a EXCEPT !.focus = f,
                 !.unstaged_selected = IF a.unstaged # <<>> /\ @ = <<>> THEN <<0>> ELSE @,
                 !.staged_selected = IF a.staged # <<>> /\ @ = <<>> THEN <<0>> ELSE @]

\* switch_focus without its call of normalize_focus.
switch_focus_toggle_only(w, env) ==
    [w EXCEPT !.app.focus = IF @ = "Unstaged" THEN "Staged" ELSE "Unstaged",
              !.ret = IF env.refresh_ok THEN "Ok" ELSE "Err"]

\* fn switch_focus; load_current_diff fails when git does.
switch_focus(w, env) ==
    LET a == [w.app EXCEPT !.focus = IF @ = "Unstaged" THEN "Staged" ELSE "Unstaged"]
    IN [w EXCEPT !.app = normalize_focus(a),
                 !.ret = IF env.refresh_ok THEN "Ok" ELSE "Err"]

\* fn apply_undo_to_mainline: git::undo_file_to_mainline restores the path
\* in the index and the worktree, and App::refresh reads the lists again.
apply_undo_to_mainline(w, path, env) ==
    IF ~env.undo_ok THEN [w EXCEPT !.ret = "Err"]
    ELSE IF ~env.refresh_ok THEN [w EXCEPT !.ret = "Err", !.git = Append(@, path)]
    ELSE LET a == w.app
             u == SelectSeq(a.unstaged, LAMBDA p : p # path)
             s == SelectSeq(a.staged, LAMBDA p : p # path)
             b == [a EXCEPT
                     !.unstaged = u, !.staged = s,
                     !.unstaged_selected =
                        restore_selection(u, @, selected_path(a.unstaged, @)),
                     !.staged_selected =
                        restore_selection(s, @, selected_path(a.staged, @))]
         IN set_status_info([w EXCEPT !.app = normalize_focus(b), !.ret = "Ok",
                                      !.git = Append(@, path)],
                            "Reverted")

\* fn undo_selected_to_mainline, with selected_undo_target
undo_selected_to_mainline(w, env) ==
    LET a == w.app
        target == IF a.focus = "Unstaged" THEN selected_path(a.unstaged, a.unstaged_selected)
                  ELSE selected_path(a.staged, a.staged_selected)
    IN IF target = <<>>
       THEN [set_status_warn(w, "No file selected") EXCEPT !.ret = "Ok"]
       ELSE IF a.confirm_undo_to_mainline
       THEN [set_status_warn(w, "Undo to mainline?") EXCEPT
                !.app.pending_undo_confirmation = target, !.ret = "Ok"]
       ELSE apply_undo_to_mainline(w, target[1], env)

\* fn confirm_pending_undo_to_mainline
confirm_pending_undo_to_mainline(w, env) ==
    IF w.app.pending_undo_confirmation = <<>> THEN [w EXCEPT !.ret = "Ok"]
    ELSE apply_undo_to_mainline([w EXCEPT !.app.pending_undo_confirmation = <<>>],
                                w.app.pending_undo_confirmation[1], env)

\* cancel_pending_undo_to_mainline with as_ref() for take().
cancel_pending_undo_to_mainline_keep(w) ==
    IF w.app.pending_undo_confirmation # <<>> THEN set_status_info(w, "Undo cancelled")
    ELSE w

\* fn cancel_pending_undo_to_mainline
cancel_pending_undo_to_mainline(w) ==
    IF w.app.pending_undo_confirmation # <<>>
    THEN set_status_info([w EXCEPT !.app.pending_undo_confirmation = <<>>],
                         "Undo cancelled")
    ELSE w

\* ---------------------------------------------------------- src/keymap.rs
KEY_QUIT == 113
KEY_UNDO_MAINLINE == 120
KEY_OPEN_SETTINGS == 111
KEY_OPEN_GIT_PANEL == 103
KEY_OPEN_COMMIT == 99
KEY_OPEN_TERMINAL_PRIMARY == 58
KEY_OPEN_TERMINAL_ALT == 33
KEY_TERMINAL_COPY_MODE == 99
KEY_TERMINAL_INTERACTIVE_MODE == 105
KEY_TERMINAL_SELECTION_ANCHOR == 118
KEY_TERMINAL_YANK == 121
KEY_TERMINAL_SEARCH == 47
KEY_TERMINAL_SEARCH_NEXT == 110
KEY_SETTINGS_CLOSE == KEY_OPEN_SETTINGS

\* ----------------------------------------------------------- src/input.rs
IsChar(key, ch) == key.code = "Char" /\ key.ch = ch

\* input.rs calls the App method `name`, which returns w.
Called(name, w) == [w EXCEPT !.call = name]

\* fn run_action
run_action(w) == IF w.ret = "Err" THEN set_status_error(w, "error") ELSE w

\* fn is_terminal_close_chord
is_terminal_close_chord(key) ==
    \/ IsChar(key, 29)
    \/ /\ "CONTROL" \in key.mods
       /\ key.code = "Char" /\ key.ch \in {93, 103, 53, 113}

\* fn handle_terminal_search_key
handle_terminal_search_key(w, key) ==
    IF key.code = "Esc" THEN Called("terminal_cancel_search", terminal_cancel_search(w))
    ELSE IF key.code = "Enter" THEN Called("terminal_search_next", terminal_search_next(w))
    ELSE IF key.code = "Backspace" THEN Called("terminal_search_backspace", terminal_search_backspace(w))
    ELSE IF key.code = "Char" /\ "CONTROL" \notin key.mods /\ "ALT" \notin key.mods
    THEN Called("terminal_search_append", terminal_search_append(w, key.ch))
    ELSE w

\* fn handle_terminal_copy_key
handle_terminal_copy_key(w, key, env) ==
    IF key.code = "Esc" \/ IsChar(key, KEY_TERMINAL_INTERACTIVE_MODE)
    THEN Called("terminal_exit_copy_mode", terminal_exit_copy_mode(w))
    ELSE IF key.code = "Up" \/ IsChar(key, 107) THEN Called("terminal_move_cursor", terminal_move_cursor(w, -1, 0))
    ELSE IF key.code = "Down" \/ IsChar(key, 106) THEN Called("terminal_move_cursor", terminal_move_cursor(w, 1, 0))
    ELSE IF key.code = "Left" \/ IsChar(key, 104) THEN Called("terminal_move_cursor", terminal_move_cursor(w, 0, -1))
    ELSE IF key.code = "Right" \/ IsChar(key, 108) THEN Called("terminal_move_cursor", terminal_move_cursor(w, 0, 1))
    ELSE IF key.code = "PageUp" THEN Called("scroll_terminal", scroll_terminal(w, 10))
    ELSE IF key.code = "PageDown" THEN Called("scroll_terminal", scroll_terminal(w, -10))
    ELSE IF key.code = "Home" THEN Called("scroll_terminal", scroll_terminal(w, 10000))
    ELSE IF key.code = "End" THEN Called("scroll_terminal", scroll_terminal(w, -10000))
    ELSE IF IsChar(key, KEY_TERMINAL_SELECTION_ANCHOR)
    THEN Called("terminal_toggle_selection_anchor", terminal_toggle_selection_anchor(w))
    ELSE IF IsChar(key, KEY_TERMINAL_YANK)
    THEN Called("terminal_yank_selection", run_action(terminal_yank_selection(w, env)))
    ELSE IF IsChar(key, KEY_TERMINAL_SEARCH) THEN Called("terminal_open_search", terminal_open_search(w))
    ELSE IF IsChar(key, KEY_TERMINAL_SEARCH_NEXT) THEN Called("terminal_search_next", terminal_search_next(w))
    ELSE w

\* fn handle_terminal_key
handle_terminal_key(w, key, env) ==
    IF w.app.terminal_search_open
    THEN IF is_terminal_close_chord(key) THEN Called("close_terminal", close_terminal(w, env))
         ELSE handle_terminal_search_key(w, key)
    ELSE IF w.app.terminal_copy_mode
    THEN IF is_terminal_close_chord(key) THEN Called("close_terminal", close_terminal(w, env))
         ELSE handle_terminal_copy_key(w, key, env)
    ELSE IF key.code = "Esc" \/ is_terminal_close_chord(key)
    THEN Called("close_terminal", close_terminal(w, env))
    ELSE IF "ALT" \in key.mods /\ IsChar(key, KEY_TERMINAL_COPY_MODE)
    THEN Called("terminal_enter_copy_mode", terminal_enter_copy_mode(w))
    ELSE Called("terminal_send_key", run_action(terminal_send_key(w, key, env)))

\* fn handle_settings_key, of which the model keeps the closing of the panel.
handle_settings_key(w, key, env) ==
    IF key.code \in {"Esc", "Enter"} \/ IsChar(key, KEY_SETTINGS_CLOSE)
    THEN Called("close_settings_panel", close_settings_panel(w, env))
    ELSE w

\* The App methods of the git panel, whose bodies input.rs does not hold:
\* the state they leave the panel in is an input of the call.
git_panel_call(w, name, env) ==
    Called(name, [w EXCEPT !.app.git_panel_open = env.panel_open,
                           !.app.git_panel_mode = env.panel_mode])

\* fn handle_git_panel_key with the handlers of its four modes
handle_git_panel_key(w, key, env) ==
    LET text == key.code = "Char" /\ "CONTROL" \notin key.mods /\ "ALT" \notin key.mods
        mode == w.app.git_panel_mode
    IN IF mode = "Browse"
       THEN IF key.code \in {"Esc", "Up", "Down", "Enter"}
               \/ (key.code = "Char"
                   /\ key.ch \in {KEY_OPEN_GIT_PANEL, 107, 106, 115, 97, 100, KEY_OPEN_COMMIT, 114})
            THEN git_panel_call(w, "browse", env)
            ELSE w
       ELSE IF mode \in {"CreateBranch", "CommitMessage"}
       THEN IF key.code \in {"Esc", "Enter", "Backspace"} \/ text
            THEN git_panel_call(w, "prompt", env)
            ELSE w
       ELSE IF key.code = "Esc" \/ (key.code = "Char" /\ key.ch \in {121, 89, 110, 78})
       THEN git_panel_call(w, "delete_confirm", env)
       ELSE w

\* fn handle_pending_undo_key
handle_pending_undo_key(w, key, env) ==
    IF IsChar(key, 121) \/ IsChar(key, 89)
    THEN Called("confirm_pending_undo_to_mainline",
                run_action(confirm_pending_undo_to_mainline(w, env)))
    ELSE IF key.code = "Esc" \/ IsChar(key, 110) \/ IsChar(key, 78)
    THEN Called("cancel_pending_undo_to_mainline", cancel_pending_undo_to_mainline(w))
    ELSE w

\* fn map_main_key and run_main_action, for the keys of the model.
run_main_action(w, key, env) ==
    IF IsChar(key, KEY_OPEN_SETTINGS) THEN Called("toggle_settings_panel", toggle_settings_panel(w, env))
    ELSE IF key.code \in {"Tab", "BackTab"} THEN Called("switch_focus", run_action(switch_focus(w, env)))
    ELSE IF IsChar(key, KEY_UNDO_MAINLINE)
    THEN Called("undo_selected_to_mainline", run_action(undo_selected_to_mainline(w, env)))
    ELSE IF IsChar(key, KEY_OPEN_GIT_PANEL) THEN git_panel_call(w, "toggle_git_panel", env)
    ELSE IF IsChar(key, KEY_OPEN_COMMIT) THEN git_panel_call(w, "open_commit_prompt", env)
    ELSE IF IsChar(key, KEY_OPEN_TERMINAL_PRIMARY) \/ IsChar(key, KEY_OPEN_TERMINAL_ALT)
    THEN Called("open_terminal", run_action(open_terminal(w, env)))
    ELSE w

RECURSIVE append_all(_, _)
\* for ch in text.chars() { app.terminal_search_append(ch) }
append_all(w, text) ==
    IF text = <<>> THEN w
    ELSE append_all(terminal_search_append(w, Head(text)), Tail(text))

\* An event: a key press, a pasted text, a turn of the mouse wheel, or one
\* of the events handle_event does nothing with.
KeyEvent(key) == [type |-> "Key", key |-> key, text |-> <<>>]
PasteEvent(text) == [type |-> "Paste", key |-> Key("Null", 0, {}), text |-> text]
OtherEvent(type) == [type |-> type, key |-> Key("Null", 0, {}), text |-> <<>>]

\* handle_event that looks at the key before it looks at the App.
handle_event_quit_first(w, event, env) ==
    [w |-> w, quit |-> event.type = "Key" /\ IsChar(event.key, KEY_QUIT)]

\* fn handle_event; quit = TRUE stands for the return value false.
handle_event(w, event, env) ==
    IF w.app.pending_undo_confirmation # <<>>
    THEN [w |-> IF event.type = "Key" THEN handle_pending_undo_key(w, event.key, env) ELSE w,
          quit |-> FALSE]
    ELSE IF event.type = "Key"
    THEN IF w.app.terminal_open
         THEN [w |-> handle_terminal_key(w, event.key, env), quit |-> FALSE]
         ELSE IF IsChar(event.key, KEY_QUIT) THEN [w |-> w, quit |-> TRUE]
         ELSE IF w.app.git_panel_open
         THEN [w |-> handle_git_panel_key(w, event.key, env), quit |-> FALSE]
         ELSE IF w.app.settings_open
         THEN [w |-> handle_settings_key(w, event.key, env), quit |-> FALSE]
         ELSE [w |-> run_main_action(w, event.key, env), quit |-> FALSE]
    ELSE IF event.type = "Paste" /\ w.app.terminal_open
    THEN [w |-> IF w.app.terminal_search_open
                THEN Called("terminal_search_append", append_all(w, event.text))
                ELSE Called("terminal_send_text",
                            run_action(terminal_send_text(w, event.text, env))),
          quit |-> FALSE]
    ELSE IF event.type = "Paste" /\ w.app.git_panel_open
    THEN [w |-> IF w.app.git_panel_mode \in {"CreateBranch", "CommitMessage"}
                   /\ \E i \in 1..Len(event.text) : event.text[i] \notin {10, 13}
                THEN git_panel_call(w, "paste", env)
                ELSE w,
          quit |-> FALSE]
    ELSE IF event.type = "ScrollUp" /\ w.app.terminal_open
    THEN [w |-> Called("scroll_terminal", scroll_terminal(w, 3)), quit |-> FALSE]
    ELSE IF event.type = "ScrollDown" /\ w.app.terminal_open
    THEN [w |-> Called("scroll_terminal", scroll_terminal(w, -3)), quit |-> FALSE]
    ELSE [w |-> w, quit |-> FALSE]

\* ------------------------------------------------------------- App::tick
\* changed is kept in ret: "true" or "false".
tick(w, env) ==
    LET pumped == IF w.ts.id # 0 THEN pump_output(w.ts) ELSE [s |-> w.ts, ret |-> FALSE]
        polled == IF w.ts.id # 0 THEN poll_exit_message(w.os, pumped.s, env.wait_ok)
                  ELSE [s |-> w.ts, ret |-> "None"]
        rescroll == w.ts.id # 0 /\ w.app.terminal_scrollback > 0
        s == IF rescroll THEN set_scrollback(polled.s, w.app.terminal_scrollback)
             ELSE polled.s
        a == [w EXCEPT !.ts = s,
                       !.app.terminal_scrollback = IF rescroll THEN scrollback(s) ELSE @]
        b == IF polled.ret = "Err" THEN set_status_error(a, "try_wait") ELSE a
        c == IF polled.ret = "Some" THEN set_status_info(b, "Terminal session ended") ELSE b
        refresh_err == ~c.app.terminal_open /\ ~c.app.settings_open /\ ~env.refresh_ok
        d == IF refresh_err THEN set_status_error(c, "refresh") ELSE c
        e == IF ~env.save_ok THEN set_status_error(d, "settings") ELSE d
        changed == pumped.ret \/ rescroll \/ polled.ret # "None" \/ refresh_err
                   \/ ~env.save_ok
    IN [e EXCEPT !.ret = IF changed THEN "true" ELSE "false"]

\* update_layout that leaves the terminal viewport alone.
update_layout_no_viewport(w, rows, cols, env) == [w EXCEPT !.ret = "Ok"]

\* App::update_layout, of which the model keeps the terminal viewport:
\* (rows, cols) is layout::terminal_output_area(root).
update_layout(w, rows, cols, env) ==
    IF w.app.terminal_open THEN set_terminal_viewport(w, rows, cols, env)
    ELSE [w EXCEPT !.ret = "Ok"]

\* =============================================================== the state
VARIABLES
    app,                \* struct App, without the session
    terminal_session,   \* App.terminal_session / the session of the harness
    os,                 \* processes and threads outside the program's structs
    pc,                 \* where the UI thread is
    needs_draw,         \* run_app's needs_draw
    last                \* the call that returned last, with what it did

vars == <<app, terminal_session, os, pc, needs_draw, last>>

\* last: op and ret name the call and its result; wrote are the bytes it
\* wrote to the pty and flush what the flush after them returned; os_resize
\* says whether it called the pty's resize; text is the text it gave the
\* clipboard; call
\* is the App method handle_event called and failed whether that returned
\* an error; arg and n are arguments and counts; key is the key a send_key
\* was given; was is the App and the session the call started from.
NoCall ==
    [op |-> "init", ret |-> "Ok", os_resize |-> FALSE, wrote |-> <<>>,
     flush |-> "none", arg |-> <<0, 0>>, n |-> 0, text |-> <<>>, call |-> "none",
     failed |-> FALSE, key |-> Key("Null", 0, {}), git |-> <<>>, quit |-> FALSE,
     was |-> [terminal_open |-> FALSE, copy_mode |-> FALSE, search_open |-> FALSE,
              id |-> 0, exited |-> FALSE]]

Call(op, ret) == [NoCall EXCEPT !.op = op, !.ret = ret]

Was(a, s) ==
    [terminal_open |-> a.terminal_open, copy_mode |-> a.terminal_copy_mode,
     search_open |-> a.terminal_search_open, id |-> s.id, exited |-> s.exited]

\* The call op that took the App from `app` to the world w.
Returned(op, w) ==
    [Call(op, w.ret) EXCEPT !.wrote = w.wrote, !.flush = w.flush,
                            !.os_resize = w.os_resize,
                            !.n = w.clip, !.text = w.text,
                            !.call = w.call, !.failed = (w.ret = "Err"),
                            !.was = Was(app, terminal_session)]

\* ------------------------------------------- the reader thread, the child
\* reader.read returns n > 0 bytes and output_tx.send succeeds (the receiver
\* is the installed session) or fails (the receiver was dropped).
ReaderRead(id) ==
    /\ os.reader[id] = "running"
    /\ IF terminal_session.id = id
       THEN /\ Len(os.readLog) < MaxChunks
            /\ LET chunk == Chunk(Len(os.readLog) + 1) IN
               /\ os' = [os EXCEPT !.readLog = Append(@, chunk)]
               /\ terminal_session' =
                    [terminal_session EXCEPT !.output_rx = Append(@, chunk)]
       ELSE /\ os' = [os EXCEPT !.reader[id] = "done"]
            /\ UNCHANGED terminal_session
    /\ UNCHANGED <<app, pc, needs_draw, last>>

\* reader.read returns Ok(0) or an error other than Interrupted.
ReaderStop(id) ==
    /\ os.reader[id] = "running"
    /\ os' = [os EXCEPT !.reader[id] = "done"]
    /\ UNCHANGED <<app, terminal_session, pc, needs_draw, last>>

\* The shell ends by itself.
ChildExit(id) ==
    /\ os.child[id] = "running"
    /\ os' = [os EXCEPT !.child[id] = "terminated"]
    /\ UNCHANGED <<app, terminal_session, pc, needs_draw, last>>

\* ------------------------------------------------------ run_app (main.rs)
\* The keys, pasted texts and other events the user produces.
Keys ==
    {Key("Esc", 0, {}), Key("Char", KEY_TERMINAL_COPY_MODE, {"ALT"}),
     Key("Char", 97, {}), Key("Char", 106, {}),
     Key("Char", KEY_OPEN_TERMINAL_PRIMARY, {}), Key("Char", KEY_QUIT, {}),
     Key("Char", KEY_OPEN_SETTINGS, {}), Key("Char", KEY_TERMINAL_SEARCH, {})}

Events == {KeyEvent(k) : k \in Keys} \cup {PasteEvent(<<98>>)}

\* The sizes layout::terminal_output_area gives the terminal view.
ViewChoices == {<<2, 3>>}

\* The search prompt of the model is typed at most MaxQuery characters, an
\* a, a b or a space.
Typable(a, event) ==
    a.terminal_search_open =>
        IF event.type = "Paste" THEN Len(a.terminal_search_query) < MaxQuery
        ELSE IF event.type = "Key" /\ event.key.code = "Char" /\ event.key.mods = {}
        THEN event.key.ch \in {97, 32} /\ Len(a.terminal_search_query) < MaxQuery
        ELSE TRUE

Init ==
    /\ app = InitApp
    /\ terminal_session = NoSession
    /\ os = InitOs
    /\ pc = "tick"
    /\ needs_draw = TRUE
    /\ last = NoCall

\* A turn of the `while let` of pump_output inside app.tick() that receives
\* a chunk; the reader thread runs between two turns.
TickPump ==
    /\ pc = "tick" /\ terminal_session.id # 0 /\ terminal_session.output_rx # <<>>
    /\ terminal_session' =
         [terminal_session EXCEPT
            !.parser = process(@, Head(terminal_session.output_rx)),
            !.output_rx = Tail(@)]
    /\ needs_draw' = TRUE
    /\ last' = [Returned("pump_loop", World(app, terminal_session, os)) EXCEPT
                  !.ret = "true"]
    /\ UNCHANGED <<app, os, pc>>

\* if app.tick() { needs_draw = true }, from the try_recv that finds the
\* channel empty on; tick returns true also when that loop fed a chunk.
Tick(env) ==
    /\ pc = "tick"
    /\ terminal_session.id # 0 => terminal_session.output_rx = <<>>
    /\ \E w \in {tick(World(app, terminal_session, os), env)} :
       LET changed == w.ret = "true" \/ last.op = "pump_loop" IN
       /\ app' = w.app
       /\ terminal_session' = w.ts
       /\ os' = w.os
       /\ needs_draw' = (needs_draw \/ changed)
       /\ last' = [Returned("tick", w) EXCEPT
                     !.ret = IF changed THEN "true" ELSE "false"]
    /\ pc' = "events"

\* event::read() and input::handle_event; a false return ends run_app and
\* main, which drops the App.
HandleEvent(event, env) ==
    /\ pc = "events"
    /\ Typable(app, event)
    /\ \E r \in {handle_event(World(app, terminal_session, os), event, env)} :
       /\ ~r.w.over /\ r.w.os.spawned <= MaxOpens
       /\ app' = r.w.app
       /\ terminal_session' = IF r.quit THEN NoSession ELSE r.w.ts
       /\ os' = IF r.quit THEN drop(r.w.os, r.w.ts) ELSE r.w.os
       /\ pc' = IF r.quit THEN "done" ELSE "events"
       /\ last' = [Returned("handle_event", r.w) EXCEPT
                     !.ret = IF r.quit THEN "false" ELSE "true"]
    /\ needs_draw' = TRUE

\* event::poll finds no event.
LeaveEvents ==
    /\ pc = "events"
    /\ pc' = "draw"
    /\ UNCHANGED <<app, terminal_session, os, needs_draw, last>>

\* if needs_draw { update_layout(root), set_error on Err; draw }
Draw(size, env) ==
    /\ pc = "draw" /\ needs_draw
    /\ \E w \in {update_layout(World(app, terminal_session, os), size[1], size[2], env)} :
       \E v \in {IF w.ret = "Err" THEN set_status_error(w, "error") ELSE w} :
       /\ app' = v.app
       /\ terminal_session' = v.ts
       /\ os' = v.os
       /\ last' = [Returned("update_layout", v) EXCEPT !.arg = size]
    /\ needs_draw' = FALSE
    /\ pc' = "tick"

SkipDraw ==
    /\ pc = "draw" /\ ~needs_draw
    /\ pc' = "tick"
    /\ UNCHANGED <<app, terminal_session, os, needs_draw, last>>

\* event::poll, event::read, terminal.size or terminal.draw fails: run_app
\* returns the error, main returns and the App is dropped.
IoError ==
    /\ pc \in {"events", "draw"}
    /\ pc' = "done"
    /\ os' = drop(os, terminal_session)
    /\ terminal_session' = NoSession
    /\ last' = Call("drop", "Ok")
    /\ UNCHANGED <<app, needs_draw>>

Next ==
    \/ TickPump
    \/ \E env \in TickEnvs : Tick(env)
    \/ \E event \in Events, env \in EventEnvs : HandleEvent(event, env)
    \/ LeaveEvents
    \/ \E size \in ViewChoices, env \in ResizeEnvs : Draw(size, env)
    \/ SkipDraw
    \/ IoError
    \/ \E id \in Ids : ReaderRead(id)
    \/ \E id \in Ids : ReaderStop(id)
    \/ \E id \in Ids : ChildExit(id)

Spec == Init /\ [][Next]_vars

\* The render loop keeps turning: no call of run_app's loop body waits for
\* ever (event::poll has a timeout, try_recv does not wait), so the loop goes
\* on from each of its positions unless it ends.  The user opens the
\* terminal, types and closes it.
LiveEvents ==
    {KeyEvent(Key("Char", KEY_OPEN_TERMINAL_PRIMARY, {})),
     KeyEvent(Key("Char", 97, {})), KeyEvent(Key("Esc", 0, {}))}

NextLive ==
    \/ TickPump
    \/ \E env \in TickEnvs : Tick(env)
    \/ \E event \in LiveEvents, env \in EventEnvs : HandleEvent(event, env)
    \/ LeaveEvents
    \/ \E size \in ViewChoices, env \in ResizeEnvs : Draw(size, env)
    \/ SkipDraw
    \/ IoError
    \/ \E id \in Ids : ReaderRead(id)
    \/ \E id \in Ids : ReaderStop(id)
    \/ \E id \in Ids : ChildExit(id)

LiveSpec ==
    /\ Init /\ [][NextLive]_vars
    /\ WF_vars(TickPump)
    /\ WF_vars(\E env \in TickEnvs : Tick(env))
    /\ WF_vars(LeaveEvents)
    /\ WF_vars(\E size \in ViewChoices, env \in ResizeEnvs : Draw(size, env))
    /\ WF_vars(SkipDraw)

\* ----------------------------------------- TerminalSession used on its own
\* The owner holds at most one session and calls its methods in any order.
InitSession ==
    /\ app = InitApp
    /\ terminal_session = NoSession
    /\ os = InitOs
    /\ pc = "idle"
    /\ needs_draw = FALSE
    /\ last = NoCall

SStart(outcome) ==
    /\ pc = "idle" /\ terminal_session.id = 0 /\ CanStart(os, outcome)
    /\ \E r \in {start(os, StartRows, StartCols, outcome)} :
       /\ os' = r.os
       /\ terminal_session' = r.s
       /\ last' = Call("start", r.ret)
    /\ UNCHANGED <<app, pc, needs_draw>>

\* pump_output with `if let` for `while let`: one chunk and back.
SPumpBegin_if_let ==
    /\ pc = "idle" /\ terminal_session.id # 0
    /\ LET call == [Call("pump_output", "false") EXCEPT
                       !.n = Len(terminal_session.output_rx),
                       !.arg = <<Len(terminal_session.parser.fed), 0>>] IN
       IF terminal_session.output_rx # <<>>
       THEN /\ terminal_session' =
                 [terminal_session EXCEPT
                    !.parser = process(@, Head(terminal_session.output_rx)),
                    !.output_rx = Tail(@)]
            /\ last' = [call EXCEPT !.ret = "true"]
       ELSE /\ last' = call
            /\ UNCHANGED terminal_session
    /\ UNCHANGED <<app, os, pc, needs_draw>>

\* pump_output, one receive at a time: the reader thread runs in between.
\* The call and its first try_recv: last.n is the number of chunks queued at
\* that moment, last.arg[1] the number of chunks the engine had been fed.
SPumpBegin ==
    /\ pc = "idle" /\ terminal_session.id # 0
    /\ LET call == [Call("pump_output", "false") EXCEPT
                       !.n = Len(terminal_session.output_rx),
                       !.arg = <<Len(terminal_session.parser.fed), 0>>] IN
       IF terminal_session.output_rx # <<>>
       THEN /\ terminal_session' =
                 [terminal_session EXCEPT
                    !.parser = process(@, Head(terminal_session.output_rx)),
                    !.output_rx = Tail(@)]
            /\ pc' = "pump"
            /\ last' = [call EXCEPT !.op = "pump_loop", !.ret = "true"]
       ELSE /\ last' = call
            /\ UNCHANGED <<terminal_session, pc>>
    /\ UNCHANGED <<app, os, needs_draw>>

\* A later turn of `while let Ok(chunk) = self.output_rx.try_recv()`.
SPumpStep ==
    /\ pc = "pump"
    /\ IF terminal_session.output_rx # <<>>
       THEN /\ terminal_session' =
                 [terminal_session EXCEPT
                    !.parser = process(@, Head(terminal_session.output_rx)),
                    !.output_rx = Tail(@)]
            /\ UNCHANGED <<pc, last>>
       ELSE /\ pc' = "idle"
            /\ last' = [last EXCEPT !.op = "pump_output"]
            /\ UNCHANGED terminal_session
    /\ UNCHANGED <<app, os, needs_draw>>

SResize(rows, cols, pty_ok) ==
    /\ pc = "idle" /\ terminal_session.id # 0
    /\ \E r \in {resize(terminal_session, rows, cols, pty_ok)} :
       /\ terminal_session' = r.s
       /\ last' = [Call("resize", r.ret) EXCEPT !.os_resize = r.os_resize,
                                                !.arg = <<rows, cols>>]
    /\ UNCHANGED <<app, os, pc, needs_draw>>

SPollExit(wait_ok) ==
    /\ pc = "idle" /\ terminal_session.id # 0
    /\ \E r \in {poll_exit_message(os, terminal_session, wait_ok)} :
       /\ terminal_session' = r.s
       /\ last' = Call("poll_exit_message", r.ret)
    /\ UNCHANGED <<app, os, pc, needs_draw>>

SDrop ==
    /\ pc = "idle" /\ terminal_session.id # 0
    /\ os' = drop(os, terminal_session)
    /\ terminal_session' = NoSession
    /\ last' = Call("drop", "Ok")
    /\ UNCHANGED <<app, pc, needs_draw>>

NextSession ==
    \/ \E outcome \in StartOutcomes : SStart(outcome)
    \/ SPumpBegin
    \/ SPumpStep
    \/ \E size \in SizeChoices, ok \in BOOLEAN : SResize(size[1], size[2], ok)
    \/ \E ok \in BOOLEAN : SPollExit(ok)
    \/ SDrop
    \/ \E id \in Ids : ReaderRead(id)
    \/ \E id \in Ids : ReaderStop(id)
    \/ \E id \in Ids : ChildExit(id)

SpecSession == InitSession /\ [][NextSession]_vars

\* ------------------------------------- the App driven through its methods
\* The owner of an App (a test, input.rs) calls its public methods in any
\* order.
InitApi ==
    /\ app = InitApp
    /\ terminal_session = NoSession
    /\ os = InitOs
    /\ pc = "api"
    /\ needs_draw = FALSE
    /\ last = NoCall

\* The call op, made with the arguments arg, returns the world world.
Commit(op, world, arg) ==
    \E w \in {world} :
        /\ ~w.over
        /\ app' = w.app
        /\ terminal_session' = w.ts
        /\ os' = w.os
        /\ last' = [Returned(op, w) EXCEPT !.arg = arg]
        /\ UNCHANGED <<pc, needs_draw>>

ApiKeys == {Key("Char", 97, {}), Key("F", 13, {})}

ApiOpenTerminal(env) ==
    /\ pc = "api"
    /\ Commit("open_terminal", open_terminal(World(app, terminal_session, os), env),
              <<0, 0>>)

ApiCloseTerminal(env) ==
    /\ pc = "api"
    /\ Commit("close_terminal", close_terminal(World(app, terminal_session, os), env),
              <<0, 0>>)

ApiSendKey(key, env) ==
    /\ pc = "api"
    /\ Commit("terminal_send_key",
              terminal_send_key(World(app, terminal_session, os), key, env), <<0, 0>>)

ApiSendText(env) ==
    /\ pc = "api"
    /\ Commit("terminal_send_text",
              terminal_send_text(World(app, terminal_session, os), <<98>>, env),
              <<0, 0>>)

ApiResize(size, env) ==
    /\ pc = "api"
    /\ Commit("terminal_resize",
              terminal_resize(World(app, terminal_session, os), size[1], size[2], env),
              size)

ApiTick(env) ==
    /\ pc = "api"
    /\ Commit("tick", tick(World(app, terminal_session, os), env), <<0, 0>>)

ApiToggleSettings(env) ==
    /\ pc = "api"
    /\ Commit("toggle_settings_panel",
              toggle_settings_panel(World(app, terminal_session, os), env), <<0, 0>>)

\* The App goes out of scope.
ApiDrop ==
    /\ pc = "api"
    /\ pc' = "done"
    /\ os' = drop(os, terminal_session)
    /\ terminal_session' = NoSession
    /\ last' = Call("drop", "Ok")
    /\ UNCHANGED <<app, needs_draw>>

NextApi ==
    \/ \E env \in StartEnvs : ApiOpenTerminal(env)
    \/ \E env \in RefreshEnvs : ApiCloseTerminal(env)
    \/ \E key \in ApiKeys, env \in WriteEnvs : ApiSendKey(key, env)
    \/ \E env \in WriteEnvs : ApiSendText(env)
    \/ \E size \in SizeChoices, env \in ResizeEnvs : ApiResize(size, env)
    \/ \E env \in TickEnvs : ApiTick(env)
    \/ \E env \in SaveEnvs : ApiToggleSettings(env)
    \/ ApiDrop
    \/ \E id \in Ids : ReaderRead(id)
    \/ \E id \in Ids : ReaderStop(id)
    \/ \E id \in Ids : ChildExit(id)

SpecApi == InitApi /\ [][NextApi]_vars

\* ------------------------------------------- copy mode driven by its owner
\* The terminal is open on a shell that has written some output; the owner
\* of the App (a test, input.rs) calls the copy-mode methods in any order
\* and sends key presses through handle_event.
MaxFed == 3         \* chunks the shell has written before the calls start
MaxTyped == 2       \* characters typed into the search prompt
CopyRows == 3       \* rows of the terminal view
CopyCols == 2       \* columns of the terminal view

\* open_terminal, a frame of the terminal view, n chunks read by the reader
\* thread and the tick that feeds them to the engine.
Opened(n) ==
    LET q == [k \in 1..n |-> Chunk(k)]
        a == open_terminal(World(InitApp, NoSession, InitOs), EnvOk)
        b == update_layout(a, CopyRows, CopyCols, EnvOk)
        c == [b EXCEPT !.ts.output_rx = q, !.os.readLog = q]
    IN tick(c, EnvOk)

InitCopy ==
    /\ \E n \in 0..MaxFed :
         \E w \in {Opened(n)} :
            /\ app = w.app
            /\ terminal_session = w.ts
            /\ os = w.os
    /\ pc = "copy"
    /\ needs_draw = FALSE
    /\ last = NoCall

\* The call op, made with the arguments arg, returns the world world.
Did(op, world, arg) ==
    \E w \in {world} :
        /\ app' = w.app
        /\ terminal_session' = w.ts
        /\ os' = w.os
        /\ last' = [NoCall EXCEPT !.op = op, !.ret = w.ret, !.wrote = w.wrote,
                                  !.n = w.clip, !.text = w.text, !.arg = arg]
        /\ UNCHANGED <<pc, needs_draw>>

\* arg says what the call starts from: whether an anchor is set, the length
\* of the prompt's text, whether the prompt is open.
CopyEnter ==
    /\ pc = "copy"
    /\ Did("terminal_enter_copy_mode",
           terminal_enter_copy_mode(World(app, terminal_session, os)),
           <<IF app.terminal_selection_anchor # <<>> THEN 1 ELSE 0,
             Len(app.terminal_search_query),
             IF app.terminal_search_open THEN 1 ELSE 0>>)

\* arg says whether the call starts in copy mode.
CopyExit ==
    /\ pc = "copy"
    /\ Did("terminal_exit_copy_mode",
           terminal_exit_copy_mode(World(app, terminal_session, os)),
           <<IF app.terminal_copy_mode THEN 1 ELSE 0, 0>>)

\* The (row_delta, col_delta) of the calls: the four arrow keys of
\* handle_terminal_copy_key and two calls of more than one row.
MoveChoices == {<<-1, 0>>, <<1, 0>>, <<0, -1>>, <<0, 1>>, <<-2, 0>>, <<2, 1>>}

\* arg is the deltas, then the cursor row and the scrollback before the call.
CopyMove(d) ==
    /\ pc = "copy"
    /\ Did("terminal_move_cursor",
           terminal_move_cursor(World(app, terminal_session, os), d[1], d[2]),
           <<d[1], d[2], app.terminal_cursor_row, app.terminal_scrollback>>)

CopyAnchor ==
    /\ pc = "copy"
    /\ Did("terminal_toggle_selection_anchor",
           terminal_toggle_selection_anchor(World(app, terminal_session, os)), <<0, 0>>)

\* run_action(app, App::terminal_yank_selection), as input.rs calls it.
CopyYank(env) ==
    /\ pc = "copy"
    /\ Did("terminal_yank_selection",
           run_action(terminal_yank_selection(World(app, terminal_session, os), env)),
           <<0, 0>>)

CopyOpenSearch ==
    /\ pc = "copy"
    /\ Did("terminal_open_search",
           terminal_open_search(World(app, terminal_session, os)), <<0, 0>>)

\* arg is the length of the text the prompt held.
CopyCancelSearch ==
    /\ pc = "copy"
    /\ Did("terminal_cancel_search",
           terminal_cancel_search(World(app, terminal_session, os)),
           <<Len(app.terminal_search_query), 0>>)

\* The characters typed into the prompt: an a or a space.
CopyAppend(ch) ==
    /\ pc = "copy"
    /\ Len(app.terminal_search_query) < MaxTyped
    /\ Did("terminal_search_append",
           terminal_search_append(World(app, terminal_session, os), ch), <<ch, 0>>)

CopyBackspace ==
    /\ pc = "copy"
    /\ Did("terminal_search_backspace",
           terminal_search_backspace(World(app, terminal_session, os)), <<0, 0>>)

\* arg is the cursor the search starts from.
CopySearchNext ==
    /\ pc = "copy"
    /\ Did("terminal_search_next",
           terminal_search_next(World(app, terminal_session, os)),
           <<app.terminal_cursor_row, app.terminal_cursor_col>>)

\* A key press that reaches input::handle_event: a, Alt+c, i.
CopyKeys ==
    {Key("Char", 97, {}), Key("Char", KEY_TERMINAL_COPY_MODE, {"ALT"}),
     Key("Char", KEY_TERMINAL_INTERACTIVE_MODE, {})}

CopyKey(key) ==
    /\ pc = "copy"
    /\ app.terminal_search_open => Len(app.terminal_search_query) < MaxTyped
    /\ Did("handle_event",
           handle_event(World(app, terminal_session, os), KeyEvent(key), EnvOk).w,
           <<key.ch, 0>>)

\* Moving, selecting and yanking.
NextCopy ==
    \/ CopyEnter
    \/ CopyExit
    \/ \E d \in MoveChoices : CopyMove(d)
    \/ CopyAnchor
    \/ \E env \in ClipEnvs : CopyYank(env)
    \/ \E key \in CopyKeys : CopyKey(key)

SpecCopy == InitCopy /\ [][NextCopy]_vars

\* Moving and searching.
ArrowChoices == {<<-1, 0>>, <<1, 0>>, <<0, -1>>, <<0, 1>>}

NextSearch ==
    \/ CopyEnter
    \/ CopyExit
    \/ \E d \in ArrowChoices : CopyMove(d)
    \/ CopyOpenSearch
    \/ CopyCancelSearch
    \/ \E ch \in {97, 32} : CopyAppend(ch)
    \/ CopyBackspace
    \/ CopySearchNext

SpecSearch == InitCopy /\ [][NextSearch]_vars

\* Entering and leaving copy mode with a selection and a search under way.
NextModes ==
    \/ CopyEnter
    \/ CopyExit
    \/ CopyAnchor
    \/ CopyOpenSearch
    \/ CopyCancelSearch
    \/ \E ch \in {97, 32} : CopyAppend(ch)
    \/ CopySearchNext
    \/ \E key \in CopyKeys : CopyKey(key)

SpecModes == InitCopy /\ [][NextModes]_vars

\* --------------------------------------------- send_key over the keyboard
\* The keys send_key is given: every ASCII character and three characters
\* beyond ASCII, the named keys encode_key_event lists, F0 to F13, and three
\* key codes it does not list, each with every set of modifiers.
KeyChoices ==
    {Key(k[1][1], k[1][2], k[2]) :
        k \in (({"Char"} \X ((0..127) \cup {233, 8364, 128512}))
                 \cup ({"F"} \X (0..13))
                 \cup ({"Enter", "Tab", "BackTab", "Backspace", "Esc", "Left", "Right",
                        "Up", "Down", "Home", "End", "PageUp", "PageDown", "Insert",
                        "Delete", "Null", "CapsLock", "Menu"} \X {0}))
               \X (SUBSET {"CONTROL", "ALT", "SHIFT"})}

\* A session has started and the user is about to press the key last.key.
InitKeys ==
    /\ app = InitApp
    /\ \E key \in KeyChoices :
         \E r \in {start(InitOs, StartRows, StartCols, "ok")} :
            /\ terminal_session = r.s
            /\ os = r.os
            /\ last = [Call("start", r.ret) EXCEPT !.key = key]
    /\ pc = "idle"
    /\ needs_draw = FALSE

\* TerminalSession::send_key(last.key).  last.n says whether
\* encode_key_event returned Some, last.text the bytes it returned.
SSendKey(write) ==
    /\ pc = "idle" /\ terminal_session.id # 0
    /\ \E r \in {send_key(terminal_session, last.key, write)} :
       \E bytes \in {encode_key_event(last.key)} :
          /\ terminal_session' = r.s
          /\ last' = [Call("send_key", r.ret) EXCEPT
                        !.wrote = r.wrote, !.flush = r.flush, !.key = last.key,
                        !.n = IF bytes.some THEN 1 ELSE 0,
                        !.text = bytes.bytes]
    /\ UNCHANGED <<app, os, pc, needs_draw>>

NextKeys == \E write \in WriteOutcomes : SSendKey(write)

SpecKeys == InitKeys /\ [][NextKeys]_vars

\* ------------------------------------------- the scrollback of the terminal
\* The terminal is open on a shell that keeps writing; the owner of the App
\* scrolls, moves the copy cursor over the edges of the view, turns the
\* mouse wheel, ticks, and opens and closes the terminal, in any order.
MaxOutput == 5      \* chunks the shell writes in one run

\* scroll_terminal with the deltas of handle_terminal_copy_key (PageUp,
\* PageDown, Home, End), of the mouse wheel and of the edge scrolling.
ScrollTerminal(delta) ==
    /\ pc = "copy"
    /\ Commit("scroll_terminal", scroll_terminal(World(app, terminal_session, os), delta),
              <<delta, app.terminal_scrollback>>)

\* Event::Mouse with ScrollUp or ScrollDown, through handle_event.
ScrollWheel(type) ==
    /\ pc = "copy"
    /\ Commit("handle_event",
              handle_event(World(app, terminal_session, os), OtherEvent(type), EnvOk).w,
              <<IF type = "ScrollUp" THEN 3 ELSE -3, app.terminal_scrollback>>)

\* The reader thread of the installed session reads one more chunk.
ScrollOutput ==
    /\ pc = "copy"
    /\ terminal_session.id # 0
    /\ os.reader[terminal_session.id] = "running"
    /\ Len(os.readLog) < MaxOutput
    /\ \E chunk \in {Chunk(Len(os.readLog) + 1)} :
          /\ os' = [os EXCEPT !.readLog = Append(@, chunk)]
          /\ terminal_session' = [terminal_session EXCEPT !.output_rx = Append(@, chunk)]
    /\ UNCHANGED <<app, pc, needs_draw, last>>

ScrollTick ==
    /\ pc = "copy"
    /\ Commit("tick", tick(World(app, terminal_session, os), EnvOk),
              <<Len(terminal_session.output_rx), app.terminal_scrollback>>)

ScrollOpen(env) ==
    /\ pc = "copy"
    /\ Commit("open_terminal", open_terminal(World(app, terminal_session, os), env),
              <<IF terminal_session.id # 0 THEN 1 ELSE 0, app.terminal_scrollback>>)

ScrollClose ==
    /\ pc = "copy"
    /\ Commit("close_terminal", close_terminal(World(app, terminal_session, os), EnvOk),
              <<0, app.terminal_scrollback>>)

NextScroll ==
    \/ \E delta \in {-10000, -10, -3, -1, 1, 3, 10, 10000} : ScrollTerminal(delta)
    \/ \E d \in {<<-1, 0>>, <<1, 0>>} : CopyMove(d)
    \/ \E type \in {"ScrollUp", "ScrollDown"} : ScrollWheel(type)
    \/ ScrollOutput
    \/ ScrollTick
    \/ \E env \in StartEnvs : ScrollOpen(env)
    \/ ScrollClose
    \/ \E id \in Ids : ChildExit(id)

SpecScroll == InitCopy /\ [][NextScroll]_vars

\* ------------------------------------------------- the reader thread alone
\* One iteration of the loop of the reader thread of session id, by what
\* reader.read returned: "data" is Ok(n) with n > 0, "eof" is Ok(0),
\* "interrupted" is an error of kind Interrupted, "error" is any other error.

\* The loop with one `Err(_) => {}` arm: every error is retried.
ReaderLoop_retry_all(id, outcome) ==
    /\ os.reader[id] = "running"
    /\ IF outcome = "data" /\ terminal_session.id = id
       THEN /\ Len(os.readLog) < MaxChunks
            /\ \E chunk \in {Chunk(Len(os.readLog) + 1)} :
                  /\ os' = [os EXCEPT !.readLog = Append(@, chunk)]
                  /\ terminal_session' =
                       [terminal_session EXCEPT !.output_rx = Append(@, chunk)]
       ELSE /\ os' = [os EXCEPT !.reader[id] =
                        IF outcome \in {"interrupted", "error"} THEN "running" ELSE "done"]
            /\ UNCHANGED terminal_session
    /\ last' = [Call("read", outcome) EXCEPT !.n = id]
    /\ UNCHANGED <<app, pc, needs_draw>>

\* output_tx.send fails exactly when the receiver, held by the session, has
\* been dropped.
ReaderLoop(id, outcome) ==
    /\ os.reader[id] = "running"
    /\ IF outcome = "data" /\ terminal_session.id = id
       THEN /\ Len(os.readLog) < MaxChunks
            /\ \E chunk \in {Chunk(Len(os.readLog) + 1)} :
                  /\ os' = [os EXCEPT !.readLog = Append(@, chunk)]
                  /\ terminal_session' =
                       [terminal_session EXCEPT !.output_rx = Append(@, chunk)]
       ELSE /\ os' = [os EXCEPT !.reader[id] =
                        IF outcome = "interrupted" THEN "running" ELSE "done"]
            /\ UNCHANGED terminal_session
    /\ last' = [Call("read", outcome) EXCEPT !.n = id]
    /\ UNCHANGED <<app, pc, needs_draw>>

NextReader ==
    \/ \E outcome \in StartOutcomes : SStart(outcome)
    \/ SPumpBegin
    \/ SPumpStep
    \/ \E ok \in BOOLEAN : SPollExit(ok)
    \/ SDrop
    \/ \E id \in Ids, outcome \in {"data", "eof", "interrupted", "error"} :
          ReaderLoop(id, outcome)
    \/ \E id \in Ids : ChildExit(id)

\* The owner's pump_output runs to its end.  Once the session is dropped its
\* child is killed and its ends of the pty are closed, so a read of its
\* reader thread returns, and not Interrupted for ever.
LiveReader ==
    /\ InitSession /\ [][NextReader]_vars
    /\ WF_vars(SPumpStep)
    /\ \A id \in Ids :
         WF_vars(/\ terminal_session.id # id
                 /\ \E outcome \in {"data", "eof", "error"} : ReaderLoop(id, outcome))

\* ------------------------------------------------- the shell to be spawned
\* A path or a program name is the sequence of its characters' codes; exists
\* is the set of paths for which Path::exists() answers true; windows is
\* cfg!(windows).  env is what env::var("SHELL") finds: the variable unset,
\* set to bytes that are not Unicode (env::var answers Err, which .ok() turns
\* into None), or set to a string.  255 is a byte that no UTF-8 text holds.

\* fn default_shell_program: the first candidate that exists.
\* C:/Windows/System32/WindowsPowerShell/v1.0/powershell.exe, C:/Windows/System32/cmd.exe;
\* /bin/zsh, /bin/bash.
default_shell_program(exists, windows) ==
    LET candidates ==
          IF windows
          THEN <<<<67, 58, 47, 87, 105, 110, 100, 111, 119, 115, 47, 83, 121, 115, 116, 101, 109, 51, 50, 47, 87, 105, 110, 100, 111, 119, 115, 80, 111, 119, 101, 114, 83, 104, 101, 108, 108, 47, 118, 49, 46, 48, 47, 112, 111, 119, 101, 114, 115, 104, 101, 108, 108, 46, 101, 120, 101>>,
                 <<67, 58, 47, 87, 105, 110, 100, 111, 119, 115, 47, 83, 121, 115, 116, 101, 109, 51, 50, 47, 99, 109, 100, 46, 101, 120, 101>>>>
          ELSE <<<<47, 98, 105, 110, 47, 122, 115, 104>>,
                 <<47, 98, 105, 110, 47, 98, 97, 115, 104>>>>
        found == {i \in 1..Len(candidates) : candidates[i] \in exists}
    IN IF found = {} THEN None
       ELSE Some(candidates[CHOOSE i \in found : \A j \in found : i <= j])

\* fn fallback_shell_program: cmd.exe, /bin/sh.
fallback_shell_program(windows) ==
    IF windows THEN <<99, 109, 100, 46, 101, 120, 101>> ELSE <<47, 98, 105, 110, 47, 115, 104>>

\* fn shell_args_for_windows: by the end of the program's name in lower
\* case: powershell.exe or pwsh.exe, cmd.exe, anything else.
shell_args_for_windows(program) ==
    LET lower == [i \in 1..Len(program) |->
                     IF program[i] \in 65..90 THEN program[i] + 32 ELSE program[i]]
        ends_with(suffix) ==
            /\ Len(suffix) <= Len(lower)
            /\ SubSeq(lower, (Len(lower) - Len(suffix)) + 1, Len(lower)) = suffix
    IN
    IF ends_with(<<112, 111, 119, 101, 114, 115, 104, 101, 108, 108, 46, 101, 120, 101>>) \/ ends_with(<<112, 119, 115, 104, 46, 101, 120, 101>>)
    THEN <<"-NoLogo", "-NoExit">>
    ELSE IF ends_with(<<99, 109, 100, 46, 101, 120, 101>>) THEN <<"/K">>
    ELSE <<>>

\* fn shell_command.  The path comes from a String or from a literal, so
\* to_string_lossy gives its characters back unchanged.
shell_command(env, exists, windows) ==
    LET env_shell == IF env.var = "value" /\ env.value # <<>> THEN Some(env.value) ELSE None
        declared == IF env_shell.some /\ env_shell.bytes \in exists THEN env_shell ELSE None
        probed == IF declared.some THEN declared ELSE default_shell_program(exists, windows)
        program == IF probed.some THEN probed.bytes ELSE fallback_shell_program(windows)
    IN [program |-> program,
        args |-> IF windows THEN shell_args_for_windows(program) ELSE <<"-i">>]

\* The environment and the file system that shell_command is called in: any
\* of the candidates may exist, and so may the path that SHELL names
\* (/bin/zsh, /bin/bash, /usr/bin/fish, /bin/sh, /usr/bin/python3, cmd.exe
\* under System32, PWSH.EXE, bash.exe of msys64, nu.exe, /tmp/sh\xff).
InitShell ==
    /\ app = InitApp
    /\ terminal_session = NoSession
    /\ os = InitOs
    /\ pc = "idle"
    /\ needs_draw = FALSE
    /\ \E windows \in BOOLEAN, declared_exists \in BOOLEAN :
       \E probed \in SUBSET {<<47, 98, 105, 110, 47, 122, 115, 104>>,
                             <<47, 98, 105, 110, 47, 98, 97, 115, 104>>,
                             <<67, 58, 47, 87, 105, 110, 100, 111, 119, 115, 47, 83, 121, 115, 116, 101, 109, 51, 50, 47, 87, 105, 110, 100, 111, 119, 115, 80, 111, 119, 101, 114, 83, 104, 101, 108, 108, 47, 118, 49, 46, 48, 47, 112, 111, 119, 101, 114, 115, 104, 101, 108, 108, 46, 101, 120, 101>>,
                             <<67, 58, 47, 87, 105, 110, 100, 111, 119, 115, 47, 83, 121, 115, 116, 101, 109, 51, 50, 47, 99, 109, 100, 46, 101, 120, 101>>} :
       \E env \in {[var |-> "unset", value |-> <<>>], [var |-> "value", value |-> <<>>],
                    [var |-> "not_unicode",
                     value |-> <<47, 116, 109, 112, 47, 115, 104, 255>>]}
                   \cup {[var |-> "value", value |-> v] :
                           v \in {<<47, 98, 105, 110, 47, 122, 115, 104>>,
                                   <<47, 98, 105, 110, 47, 98, 97, 115, 104>>,
                                   <<47, 117, 115, 114, 47, 98, 105, 110, 47, 102, 105, 115, 104>>,
                                   <<47, 98, 105, 110, 47, 115, 104>>,
                                   <<47, 117, 115, 114, 47, 98, 105, 110, 47, 112, 121, 116, 104, 111, 110, 51>>,
                                   <<67, 58, 47, 87, 105, 110, 100, 111, 119, 115, 47, 83, 121, 115, 116, 101, 109, 51, 50, 47, 99, 109, 100, 46, 101, 120, 101>>,
                                   <<67, 58, 47, 80, 114, 111, 103, 114, 97, 109, 32, 70, 105, 108, 101, 115, 47, 80, 111, 119, 101, 114, 83, 104, 101, 108, 108, 47, 55, 47, 80, 87, 83, 72, 46, 69, 88, 69>>,
                                   <<67, 58, 47, 109, 115, 121, 115, 54, 52, 47, 117, 115, 114, 47, 98, 105, 110, 47, 98, 97, 115, 104, 46, 101, 120, 101>>,
                                   <<67, 58, 47, 116, 111, 111, 108, 115, 47, 110, 117, 46, 101, 120, 101>>}} :
          last = [NoCall EXCEPT
                    !.arg = <<env,
                              probed \cup (IF declared_exists /\ env.value # <<>>
                                           THEN {env.value} ELSE {}),
                              windows>>]

\* shell_command() is called; ret is the ShellCommand it returns.
ShellCommand ==
    /\ last.op = "init"
    /\ last' = [last EXCEPT !.op = "shell_command",
                            !.ret = shell_command(last.arg[1], last.arg[2], last.arg[3])]
    /\ UNCHANGED <<app, terminal_session, os, pc, needs_draw>>

SpecShell == InitShell /\ [][ShellCommand]_vars

\* --------------------------------------------- the main view and its events
\* App::new on a repository whose status lists the given paths; the owner
\* (input.rs, a test) then sends events and calls the methods of the lists.
InitMain ==
    /\ \E lists \in {<<<<>>, <<>>>>, <<<<1>>, <<>>>>, <<<<>>, <<3>>>>, <<<<1, 2>>, <<2, 3>>>>},
          confirm \in BOOLEAN :
         app = normalize_focus(
                  [InitApp EXCEPT
                     !.unstaged = lists[1], !.staged = lists[2],
                     !.unstaged_selected = restore_selection(lists[1], <<>>, <<>>),
                     !.staged_selected = restore_selection(lists[2], <<>>, <<>>),
                     !.confirm_undo_to_mainline = confirm])
    /\ terminal_session = NoSession
    /\ os = InitOs
    /\ pc = "main"
    /\ needs_draw = FALSE
    /\ last = NoCall

\* The key presses, the paste and the other events the owner sends.
MainEvents ==
    {KeyEvent(Key("Char", KEY_QUIT, mods)) : mods \in {{}, {"CONTROL"}, {"SHIFT", "ALT"}}}
    \cup {KeyEvent(Key("Char", ch, {})) :
             ch \in {121, 89, 110, 78, KEY_UNDO_MAINLINE, KEY_OPEN_GIT_PANEL,
                     KEY_OPEN_SETTINGS, KEY_OPEN_TERMINAL_PRIMARY}}
    \cup {KeyEvent(Key(code, 0, {})) : code \in {"Esc", "Tab"}}
    \cup {PasteEvent(<<113>>), OtherEvent("ScrollUp")}

\* input::handle_event as run_app calls it: a false return ends run_app.
\* The call meets a git that works or fails, and git panel methods that
\* leave the panel closed or open in one of its modes.
MainEvent(event) ==
    /\ pc = "main"
    /\ \E r \in {handle_event(World(app, terminal_session, os), event, env) :
                  env \in {[EnvOk EXCEPT !.panel_mode = mode] :
                             mode \in {"Browse", "CreateBranch", "CommitMessage",
                                       "ConfirmDeleteBranch"}}
                          \cup {[EnvOk EXCEPT !.panel_open = FALSE],
                                [EnvOk EXCEPT !.undo_ok = FALSE],
                                [EnvOk EXCEPT !.refresh_ok = FALSE]}} :
       /\ ~r.w.over /\ r.w.os.spawned <= MaxOpens
       /\ app' = r.w.app
       /\ terminal_session' = r.w.ts
       /\ os' = r.w.os
       /\ pc' = IF r.quit THEN "done" ELSE "main"
       /\ last' = [Returned("handle_event", r.w) EXCEPT
                     !.key = event.key, !.text = <<event.type>>,
                     !.git = r.w.git, !.quit = r.quit]
    /\ UNCHANGED needs_draw

\* A method of the lists called on the App itself.
MainCall(name) ==
    /\ pc = "main"
    /\ \E w \in {World(app, terminal_session, os)} :
       \E v \in {IF name = "switch_focus" THEN switch_focus(w, env)
                 ELSE IF name = "undo_selected_to_mainline"
                 THEN undo_selected_to_mainline(w, env)
                 ELSE IF name = "confirm_pending_undo_to_mainline"
                 THEN confirm_pending_undo_to_mainline(w, env)
                 ELSE cancel_pending_undo_to_mainline(w) :
                 env \in {EnvOk, [EnvOk EXCEPT !.undo_ok = FALSE]}} :
       /\ app' = v.app
       /\ last' = [Returned(name, v) EXCEPT !.git = v.git]
    /\ UNCHANGED <<terminal_session, os, pc, needs_draw>>

NextMain ==
    \/ \E event \in MainEvents : MainEvent(event)
    \/ \E name \in {"switch_focus", "undo_selected_to_mainline",
                    "confirm_pending_undo_to_mainline",
                    "cancel_pending_undo_to_mainline"} : MainCall(name)

SpecMain == InitMain /\ [][NextMain]_vars

\* ------------------------------------------------ find_query_in_line alone
MaxLine == 3        \* characters of the line, over the letters a and b
MaxNeedle == 2      \* characters of the query
MaxStartCol == 5    \* start_col, which may lie beyond the line

\* The arguments of the call: (line, query, start_col).
InitFind ==
    /\ app = InitApp
    /\ terminal_session = NoSession
    /\ os = InitOs
    /\ pc = "idle"
    /\ needs_draw = FALSE
    /\ \E line \in UNION {[1..n -> {97, 98}] : n \in 0..MaxLine}
                   \cup {<<97, 98, 99, 100, 101, 102>>},
          query \in UNION {[1..n -> {97, 98}] : n \in 0..MaxNeedle}
                    \cup {<<99, 100>>, <<97, 98, 97, 98>>},
          start_col \in 0..MaxStartCol :
          last = [NoCall EXCEPT !.arg = <<line, query, start_col>>]

\* find_query_in_line is called; n is what it returns, -1 for None.
FindQueryInLine ==
    /\ last.op = "init"
    /\ last' = [last EXCEPT !.op = "find_query_in_line",
                            !.n = find_query_in_line(last.arg[1], last.arg[2], last.arg[3])]
    /\ UNCHANGED <<app, terminal_session, os, pc, needs_draw>>

SpecFind == InitFind /\ [][FindQueryInLine]_vars

\* ------------------------------------- the copy cursor, the anchor, the view
\* The owner of the App moves the copy cursor, selects, yanks, searches,
\* scrolls, turns the mouse wheel, resizes the view, ticks, and closes and
\* opens the terminal, in any order, while the shell writes.
\* A call is its name and two numbers: the deltas of a move, the delta of a
\* scroll, the rows and columns of a view, the character typed into the
\* prompt, whether the clipboard fails.
ViewCalls ==
    {[op |-> op, a |-> 0, b |-> 0] :
        op \in {"terminal_enter_copy_mode", "terminal_exit_copy_mode",
                "terminal_toggle_selection_anchor", "terminal_open_search",
                "terminal_search_next", "tick", "open_terminal", "close_terminal",
                "ScrollUp", "ScrollDown"}}
    \cup {[op |-> "terminal_move_cursor", a |-> d[1], b |-> d[2]] :
             d \in ArrowChoices \cup {<<-2, 0>>, <<2, 7>>}}
    \cup {[op |-> "scroll_terminal", a |-> delta, b |-> 0] : delta \in {-10, 3}}
    \cup {[op |-> "set_terminal_viewport", a |-> size[1], b |-> size[2]] :
             size \in {<<0, 0>>, <<1, 1>>, <<3, 2>>}}
    \cup {[op |-> "terminal_yank_selection", a |-> fails, b |-> 0] : fails \in {0, 1}}
    \cup {[op |-> "terminal_search_append", a |-> 97, b |-> 0]}

\* The call c made on the App of w; a turn of the wheel goes through
\* handle_event, a yank through run_action as in input.rs.
view_call(w, c) ==
    CASE c.op = "terminal_enter_copy_mode" -> terminal_enter_copy_mode(w)
      [] c.op = "terminal_exit_copy_mode" -> terminal_exit_copy_mode(w)
      [] c.op = "terminal_toggle_selection_anchor" -> terminal_toggle_selection_anchor(w)
      [] c.op = "terminal_open_search" -> terminal_open_search(w)
      [] c.op = "terminal_search_append" -> terminal_search_append(w, c.a)
      [] c.op = "terminal_search_next" -> terminal_search_next(w)
      [] c.op = "terminal_move_cursor" -> terminal_move_cursor(w, c.a, c.b)
      [] c.op = "scroll_terminal" -> scroll_terminal(w, c.a)
      [] c.op = "set_terminal_viewport" -> set_terminal_viewport(w, c.a, c.b, EnvOk)
      [] c.op = "terminal_yank_selection" ->
            run_action(terminal_yank_selection(
               w, [EnvOk EXCEPT !.clip = IF c.a = 1 THEN "set_text" ELSE "ok"]))
      [] c.op = "tick" -> tick(w, EnvOk)
      [] c.op = "open_terminal" -> open_terminal(w, EnvOk)
      [] c.op = "close_terminal" -> close_terminal(w, EnvOk)
      [] OTHER -> handle_event(w, OtherEvent(c.op), EnvOk).w

ViewCall(c) ==
    /\ pc = "copy"
    /\ c.op = "terminal_search_append" => Len(app.terminal_search_query) < MaxQuery
    /\ \E v \in {view_call(World(app, terminal_session, os), c)} :
          /\ app' = v.app
          /\ terminal_session' = v.ts
          /\ os' = v.os
    /\ UNCHANGED <<pc, needs_draw, last>>

NextView ==
    \/ \E c \in ViewCalls : ViewCall(c)
    \/ Len(os.readLog) < MaxFed /\ ScrollOutput

SpecView == InitCopy /\ [][NextView]_vars

\* -------------------------------------------- the modes, driven by run_app
\* run_app sends key presses and turns of the mouse wheel to handle_event
\* and ticks, while the shell writes: the keys of copy mode and of its
\* prompt, the close chord, and the keys that open the terminal and the
\* settings panel from the main view.
NextNest ==
    \/ \E key \in {Key("Char", KEY_TERMINAL_COPY_MODE, {"ALT"}),
                   Key("Char", KEY_TERMINAL_INTERACTIVE_MODE, {}),
                   Key("Char", KEY_TERMINAL_SELECTION_ANCHOR, {}),
                   Key("Char", KEY_TERMINAL_YANK, {}),
                   Key("Char", KEY_TERMINAL_SEARCH, {}),
                   Key("Char", KEY_TERMINAL_SEARCH_NEXT, {}),
                   Key("Char", 97, {}),
                   Key("Char", 93, {"CONTROL"}),
                   Key("Char", KEY_OPEN_TERMINAL_PRIMARY, {}),
                   Key("Char", KEY_OPEN_SETTINGS, {}),
                   Key("Esc", 0, {}), Key("Enter", 0, {})} : CopyKey(key)
    \/ ScrollWheel("ScrollUp")
    \/ Len(os.readLog) < MaxFed /\ ScrollOutput
    \/ ScrollTick

SpecNest == InitCopy /\ [][NextNest]_vars

\* ------------------------------------------------- the frames run_app draws
\* run_app with a terminal whose size changes between frames, a shell that
\* may exit (the next key typed starts another one at 24x80) and a pty whose
\* resize may fail.
\* event::read() and input::handle_event, for the events of LiveEvents.
FrameEvent(event, env) ==
    /\ pc = "events"
    /\ \E r \in {handle_event(World(app, terminal_session, os), event, env)} :
       /\ ~r.w.over
       /\ app' = r.w.app
       /\ terminal_session' = r.w.ts
       /\ os' = r.w.os
       /\ last' = Returned("handle_event", r.w)
    /\ needs_draw' = TRUE
    /\ UNCHANGED pc

NextFrame ==
    \/ TickPump
    \/ \E env \in TickEnvs : Tick(env)
    \/ \E event \in LiveEvents, env \in StartEnvs : FrameEvent(event, env)
    \/ LeaveEvents
    \/ \E size \in {<<0, 4>>, <<2, 3>>, <<3, 2>>, <<StartRows, StartCols>>},
          env \in ResizeEnvs : Draw(size, env)
    \/ SkipDraw
    \/ \E id \in Ids : ReaderRead(id)
    \/ \E id \in Ids : ChildExit(id)

SpecFrame == Init /\ [][NextFrame]_vars

\* ======================================================= the claims
\* The step on which a call of pump_output returns.
PumpReturns == pc' = "idle" /\ (SPumpBegin \/ SPumpStep)

\* C1 as stated: pump_output finds k chunks queued; k = 0: it returns false
\* and changes nothing; k >= 1: it returns true and has fed the engine
\* exactly those k chunks.
C1_ExactlyQueued ==
    [][PumpReturns =>
        IF last'.n = 0
        THEN last'.ret = "false" /\ UNCHANGED <<terminal_session, os>>
        ELSE /\ last'.ret = "true"
             /\ Len(terminal_session'.parser.fed) = last'.arg[1] + last'.n]_vars

\* C1 (amended): pump_output never waits.  If its first receive finds the
\* channel empty it returns false and changes no state.  If it finds k >= 1
\* chunks it returns true, having fed the engine, in arrival order, those k
\* chunks and every chunk the reader thread queued while it was draining, and
\* having left the channel empty at its last receive.
C1_PumpOutput ==
    [][PumpReturns =>
        IF last'.n = 0
        THEN last'.ret = "false" /\ UNCHANGED <<terminal_session, os>>
        ELSE /\ last'.ret = "true"
             /\ Len(terminal_session'.parser.fed) >= last'.arg[1] + last'.n
             /\ terminal_session'.parser.fed = os'.readLog
             /\ terminal_session'.output_rx = <<>>]_vars

\* A call that found one chunk and fed a second that arrived meanwhile.
C1_Witness ==
    /\ pc = "idle" /\ last.op = "pump_output" /\ last.n = 1
    /\ Len(terminal_session.parser.fed) = last.arg[1] + 2

\* C3: a new session is not exited; exited is set only by a
\* poll_exit_message that finds the child gone, which returns Some; a poll
\* of an exited session returns None; Some is returned by no other poll;
\* and exited is never reset while the session is the same.
C3_ExitOnce ==
    [][LET s == terminal_session
           t == terminal_session' IN
       /\ (t.id # 0 /\ t.id # s.id) => ~is_exited(t)
       /\ (s.id # 0 /\ t.id = s.id) =>
            /\ is_exited(s) => is_exited(t)
            /\ (~is_exited(s) /\ is_exited(t)) =>
                 /\ \E ok \in BOOLEAN : SPollExit(ok)
                 /\ last'.ret = "Some"
                 /\ os.child[s.id] # "running"
       /\ \A ok \in BOOLEAN : SPollExit(ok) =>
            /\ is_exited(s) => last'.ret = "None"
            /\ (last'.ret = "Some") <=> (~is_exited(s) /\ is_exited(t))
            /\ (~is_exited(s) /\ ok /\ os.child[s.id] # "running")
                  => last'.ret = "Some"]_vars

\* A poll of a session that is already exited.
C3_Witness ==
    /\ last.op = "poll_exit_message" /\ last.ret = "None"
    /\ terminal_session.id # 0 /\ is_exited(terminal_session)

\* C6 as stated: a start that fails leaves no running child behind.
C6_FailedStartLeavesNoChild ==
    (last.op = "start" /\ last.ret = "Err")
        => \A i \in Ids : os.child[i] # "running" \/ i \in os.killed

SizesAgree(s) ==
    /\ s.master = [rows |-> s.rows, cols |-> s.cols]
    /\ s.parser.rows = s.rows /\ s.parser.cols = s.cols

C2_ReaderToEngine ==
    /\ [](terminal_session.id # 0 =>
            /\ terminal_session.parser.fed \o terminal_session.output_rx = os.readLog
            /\ LET fed == terminal_session.parser.fed IN
               Len(fed) <= Len(os.readLog) /\ fed = SubSeq(os.readLog, 1, Len(fed)))
    /\ \A i \in Ids, n \in 1..MaxChunks :
          (terminal_session.id = i /\ Len(os.readLog) >= n)
             ~> (terminal_session.id # i \/ Len(terminal_session.parser.fed) >= n)

\* A tick has fed the engine both chunks the reader read.
C2_Witness ==
    /\ last.op = "pump_loop" /\ terminal_session.id # 0
    /\ Len(os.readLog) = 2 /\ terminal_session.parser.fed = os.readLog

SendOps == {"open_terminal", "terminal_send_key", "terminal_send_text"}

\* C4 as stated: the next open_terminal, terminal_send_key or
\* terminal_send_text after the exited flag is set installs a fresh session
\* in place of the old one; a session that is not exited is not replaced.
C4_ExitedIsReplaced ==
    (last.op \in SendOps /\ last.was.id # 0) =>
        IF last.was.exited
        THEN /\ terminal_session.id \notin {0, last.was.id}
             /\ ~is_exited(terminal_session)
             /\ last.was.id \in os.killed
        ELSE terminal_session.id = last.was.id

\* C4 (amended): exited is never reset; an open_terminal, terminal_send_key
\* or terminal_send_text that finds the installed session exited calls start:
\* if start succeeds the fresh session (exited = false) takes the place of
\* the old one, whose child is killed; if start fails the call returns the
\* error and the exited session stays installed.  A session that is not
\* exited is never replaced by these operations, and the App holds one
\* session at most.
C4_ExitedIsReplacedIfStartSucceeds ==
    (last.op \in SendOps /\ last.was.id # 0) =>
        IF last.was.exited
        THEN \/ /\ terminal_session.id \notin {0, last.was.id}
                /\ ~is_exited(terminal_session)
                /\ last.was.id \in os.killed
             \/ /\ last.failed
                /\ terminal_session.id = last.was.id
                /\ is_exited(terminal_session)
        ELSE terminal_session.id = last.was.id

\* A key sent to an exited session started the second session.
C4_Witness ==
    /\ last.op = "terminal_send_key" /\ last.was.id = 1 /\ last.was.exited
    /\ terminal_session.id = 2 /\ ~is_exited(terminal_session)
    /\ 1 \in os.killed

\* C5 as stated: an operation that takes terminal_open from true to false,
\* or the drop of the App, leaves no session installed and has killed the
\* child of the session it found.
C5_ClosedViewHoldsNoSession ==
    ((last.was.terminal_open /\ ~app.terminal_open) \/ last.op = "drop") =>
        /\ terminal_session.id = 0
        /\ last.was.id # 0 => last.was.id \in os.killed

\* C7 as stated: when open_terminal fails, the view is closed and no session
\* is installed afterwards, the status is an error and handle_event returns
\* true.
C7_FailedOpenStaysClosed ==
    (last.op = "handle_event" /\ last.call = "open_terminal" /\ last.failed) =>
        /\ ~app.terminal_open
        /\ terminal_session.id = 0
        /\ app.status.kind = "Error"
        /\ last.ret = "true"

\* C8: a write that fails on a live session, and a resize that fails, give an
\* Error status and leave the session installed, not exited, the view open
\* and the stored size as it was (that of the pty and the engine, not the
\* size asked for); nothing was written.  A flush that fails after the write
\* is reported as success, with the bytes written.
C8_FailuresAreNotFatal ==
    /\ (/\ last.op = "handle_event"
        /\ last.call \in {"terminal_send_key", "terminal_send_text"}
        /\ last.failed /\ last.was.id # 0 /\ ~last.was.exited) =>
          /\ app.status.kind = "Error" /\ last.ret = "true"
          /\ app.terminal_open
          /\ terminal_session.id = last.was.id /\ ~is_exited(terminal_session)
          /\ last.wrote = <<>>
    /\ (last.op = "update_layout" /\ last.failed) =>
          /\ app.status.kind = "Error"
          /\ app.terminal_open
          /\ terminal_session.id = last.was.id /\ terminal_session.id # 0
          /\ ~is_exited(terminal_session) = ~last.was.exited
          /\ <<terminal_session.rows, terminal_session.cols>> # last.arg
          /\ SizesAgree(terminal_session)
    /\ last.flush = "err" => (~last.failed /\ last.wrote # <<>>)

\* A key press whose write failed, and the session still there.
C8_Witness ==
    /\ last.op = "handle_event" /\ last.call = "terminal_send_key"
    /\ last.failed /\ last.was.id # 0 /\ ~last.was.exited
    /\ terminal_session.id = last.was.id /\ app.terminal_open

\* C10 as stated: an event handled while copy mode is active writes no
\* bytes to the session.
C10_CopyModeWritesNothing ==
    (last.op = "handle_event" /\ last.was.copy_mode) => last.wrote = <<>>

\* ----------------------------------------------------- copy mode: the yank
\* Row-major order of two (row, col) positions.
C11_Before(p, q) == p[1] < q[1] \/ (p[1] = q[1] /\ p[2] <= q[2])

\* The characters of a row at the indices from..to (0-based, inclusive) that
\* the row has.
C11_Chars(row, from, to) ==
    LET lo == Min(from, Len(row))
        hi == Min(to + 1, Len(row))
    IN IF lo < hi THEN [i \in 1..(hi - lo) |-> row[lo + i]] ELSE <<>>

RECURSIVE C11_Join(_)
\* The parts joined with '\n'.
C11_Join(parts) ==
    IF Len(parts) = 1 THEN parts[1]
    ELSE parts[1] \o <<10>> \o C11_Join(Tail(parts))

\* The text between the positions a and c as the claim words it.
C11_Text(rows, a, c) ==
    LET first == IF C11_Before(a, c) THEN a ELSE c
        final == IF C11_Before(a, c) THEN c ELSE a
        part(r) ==
            LET row == rows[r + 1] IN
            IF first[1] = final[1] THEN C11_Chars(row, first[2], final[2])
            ELSE IF r = first[1] THEN C11_Chars(row, first[2], Len(row))
            ELSE IF r = final[1] THEN C11_Chars(row, 0, final[2])
            ELSE row
    IN C11_Join([k \in 1..(final[1] - first[1] + 1) |-> part(first[1] + k - 1)])

\* C11: a yank with the anchor at a and the cursor at c extracts the same
\* text as one with the anchor at c and the cursor at a, and that text is:
\* with (first, final) the two positions in row-major order, the first row
\* from first.col (clamped to its length) to its end, every whole row
\* between, the last row from 0 through final.col (clamped), joined with
\* '\n'; on one row, the characters first.col..=final.col of it.  This is
\* the text handed to the clipboard, and the clipboard is handed a text
\* exactly when that text is not empty and the clipboard could be opened.
C11_YankText ==
    [][(last'.op = "terminal_yank_selection" /\ app.terminal_selection_anchor # <<>>) =>
        LET rows == plain_rows(terminal_session)
            a == app.terminal_selection_anchor
            c == <<app.terminal_cursor_row, app.terminal_cursor_col>>
        IN /\ selection_text(rows, a, c) = selection_text(rows, c, a)
           /\ selection_text(rows, a, c) = C11_Text(rows, a, c)
           /\ last'.n = 1 => last'.text = C11_Text(rows, a, c)
           /\ last'.n = 0 => (C11_Text(rows, a, c) = <<>> \/ last'.ret = "Err")]_vars

\* A yank over three rows with the anchor below the cursor: the clipboard
\* was handed a text with two newlines (set_text failed, so the anchor is
\* still there to see).
C11_Witness ==
    /\ last.op = "terminal_yank_selection" /\ last.n = 1
    /\ app.terminal_selection_anchor # <<>>
    /\ app.terminal_selection_anchor[1] = app.terminal_cursor_row + 2
    /\ Len(SelectSeq(last.text, LAMBDA ch : ch = 10)) = 2
    /\ Len(last.text) > 3

\* C12: a yank with an anchor set ends in one of three ways.  The extracted
\* text is empty: a warning, no clipboard call, Ok.  The text is not empty
\* and the clipboard takes it: the status says Copied, the anchor is
\* cleared.  The text is not empty and the clipboard cannot be opened or
\* refuses the text: Err, input.rs reports an error, the anchor stays.  In
\* all three the cursor, copy mode, the scrollback and the session are as
\* before.
C12_YankOutcomes ==
    [][(last'.op = "terminal_yank_selection" /\ app.terminal_selection_anchor # <<>>) =>
        LET out == selection_text(plain_rows(terminal_session),
                                  app.terminal_selection_anchor,
                                  <<app.terminal_cursor_row, app.terminal_cursor_col>>)
            anchor == app.terminal_selection_anchor
        IN /\ out = <<>> =>
                /\ app'.status.kind = "Warn" /\ last'.n = 0 /\ last'.ret = "Ok"
                /\ app'.terminal_selection_anchor = anchor
           /\ out # <<>> =>
                \/ /\ app'.status = [kind |-> "Info", text |-> "Copied"]
                   /\ last'.ret = "Ok" /\ last'.n = 1 /\ last'.text = out
                   /\ app'.terminal_selection_anchor = <<>>
                \/ /\ app'.status.kind = "Error" /\ last'.ret = "Err"
                   /\ app'.terminal_selection_anchor = anchor
           /\ app'.terminal_cursor_row = app.terminal_cursor_row
           /\ app'.terminal_cursor_col = app.terminal_cursor_col
           /\ app'.terminal_copy_mode = app.terminal_copy_mode
           /\ app'.terminal_scrollback = app.terminal_scrollback
           /\ UNCHANGED terminal_session]_vars

\* A yank in copy mode that could not open the clipboard: an error is
\* reported and the anchor is still set.
C12_Witness ==
    /\ last.op = "terminal_yank_selection" /\ last.ret = "Err" /\ last.n = 0
    /\ app.status.kind = "Error" /\ app.terminal_copy_mode
    /\ app.terminal_selection_anchor # <<>>

\* C13: a yank with no anchor set reports a warning, makes no clipboard
\* call and changes nothing but the status: cursor, anchor, search state,
\* scrollback, copy mode and the session are as before, and it returns Ok.
C13_YankWithoutAnchor ==
    [][(last'.op = "terminal_yank_selection" /\ app.terminal_selection_anchor = <<>>) =>
        /\ app'.status.kind = "Warn"
        /\ last'.n = 0 /\ last'.text = <<>> /\ last'.ret = "Ok"
        /\ app' = [app EXCEPT !.status = app'.status]
        /\ UNCHANGED <<terminal_session, os>>]_vars

\* A yank in copy mode with no anchor, on a row that has text under the
\* cursor.
C13_Witness ==
    /\ last.op = "terminal_yank_selection" /\ last.n = 0
    /\ app.terminal_copy_mode /\ app.terminal_selection_anchor = <<>>
    /\ app.status = [kind |-> "Warn", text |-> "No selection anchor; press v first"]
    /\ plain_rows(terminal_session)[app.terminal_cursor_row + 1] # <<>>

\* --------------------------------------------------- copy mode: the search
\* The query a confirm searches for: the text of the prompt if it is open,
\* else the last query, trimmed.
C14_Query ==
    trim(IF app.terminal_search_open THEN app.terminal_search_query
         ELSE app.terminal_last_search)

\* q occurs in the rows at (r, c): the characters c..c+len(q)-1 of row r
\* are those of q.
C14_Occurs(rows, q, r, c) ==
    /\ c + Len(q) <= Len(rows[r + 1])
    /\ \A i \in 1..Len(q) : rows[r + 1][c + i] = q[i]

\* The positions the scan of the claim visits, and the order it visits them
\* in: the cursor's row after the cursor's column, the rows below, then the
\* rows above from row 0.
C14_Visited(rows, q) ==
    {p \in (0..(Len(rows) - 1)) \X (0..CopyCols) :
        /\ C14_Occurs(rows, q, p[1], p[2])
        /\ p[1] = app.terminal_cursor_row => p[2] > app.terminal_cursor_col}

C14_Earlier(rows, p, o) ==
    LET rank(r) == (r + Len(rows) - app.terminal_cursor_row) % Len(rows) IN
    rank(p[1]) < rank(o[1]) \/ (p[1] = o[1] /\ p[2] <= o[2])

\* C14: a confirm with a non-empty trimmed query q stores q as the last
\* query, closes the prompt and searches the snapshot for q, character by
\* character and case-sensitively, in the order: the cursor's row right of
\* the cursor, each following row, then the rows from 0 up to but not
\* including the cursor's row.  The cursor moves to the first occurrence
\* visited, clamped to the view, and Found is reported; with no occurrence
\* visited a warning is reported and the cursor stays.  Nothing else of the
\* App changes.
C14_SearchConfirm ==
    [][(last'.op = "terminal_search_next" /\ C14_Query # <<>>) =>
        LET rows == plain_rows(terminal_session)
            visited == C14_Visited(rows, C14_Query)
        IN /\ app'.terminal_last_search = C14_Query
           /\ ~app'.terminal_search_open
           /\ IF visited = {}
              THEN /\ app'.status.kind = "Warn"
                   /\ app'.terminal_cursor_row = app.terminal_cursor_row
                   /\ app'.terminal_cursor_col = app.terminal_cursor_col
              ELSE LET m == CHOOSE p \in visited :
                                \A o \in visited : C14_Earlier(rows, p, o)
                   IN /\ app'.status.kind = "Info"
                      /\ app'.terminal_cursor_row =
                            Min(m[1], app.terminal_view_rows - 1)
                      /\ app'.terminal_cursor_col =
                            Min(m[2], app.terminal_view_cols - 1)
           /\ app' = [app EXCEPT !.status = app'.status,
                                 !.terminal_last_search = app'.terminal_last_search,
                                 !.terminal_search_open = FALSE,
                                 !.terminal_cursor_row = app'.terminal_cursor_row,
                                 !.terminal_cursor_col = app'.terminal_cursor_col]
           /\ UNCHANGED <<terminal_session, os>>]_vars

\* A confirm of the typed query " a" that wrapped: it started on a row
\* below every occurrence, passed the row "A" and stopped on a row above.
C14_Witness ==
    /\ last.op = "terminal_search_next" /\ app.status.text = "Found"
    /\ app.terminal_search_query = <<32, 97>> /\ app.terminal_last_search = <<97>>
    /\ plain_rows(terminal_session)[1] = <<65>>
    /\ app.terminal_cursor_row = 1 /\ last.arg[1] = 2

\* q occurs at p, and nowhere after p in row-major order.
C15_LastOccurrence(rows, q, p) ==
    /\ C14_Occurs(rows, q, p[1], p[2])
    /\ \A r \in 0..(Len(rows) - 1), c \in 0..CopyCols :
         C14_Occurs(rows, q, r, c) => (r < p[1] \/ (r = p[1] /\ c <= p[2]))

\* The occurrences of q before p in row-major order.
C15_EarlierOccurrences(rows, q, p) ==
    {o \in (0..(Len(rows) - 1)) \X (0..CopyCols) :
        /\ C14_Occurs(rows, q, o[1], o[2])
        /\ o[1] < p[1] \/ (o[1] = p[1] /\ o[2] < p[2])}

\* C15 as stated: a confirm with the cursor on the last occurrence of the
\* query, when the query also occurs earlier (on an earlier row or earlier
\* on the cursor's row), moves the cursor to an earlier occurrence.
C15_WrapFindsEarlier ==
    [][LET rows == plain_rows(terminal_session)
           cursor == <<app.terminal_cursor_row, app.terminal_cursor_col>>
       IN (/\ last'.op = "terminal_search_next" /\ C14_Query # <<>>
           /\ C15_LastOccurrence(rows, C14_Query, cursor)
           /\ C15_EarlierOccurrences(rows, C14_Query, cursor) # {}) =>
             <<app'.terminal_cursor_row, app'.terminal_cursor_col>>
                \in C15_EarlierOccurrences(rows, C14_Query, cursor)]_vars

\* The text a confirm takes its query from, before trimming.
C16_Taken ==
    IF app.terminal_search_open THEN app.terminal_search_query
    ELSE app.terminal_last_search

\* C16: a confirm whose query (the text of the prompt if it is open, else
\* the last query) is empty or all whitespace reports a warning, closes the
\* prompt and changes nothing else: the cursor and the last confirmed query
\* are as before.
C16_EmptyQuery ==
    [][(/\ last'.op = "terminal_search_next"
        /\ \A i \in 1..Len(C16_Taken) : is_whitespace(C16_Taken[i])) =>
        /\ app'.status.kind = "Warn"
        /\ app' = [app EXCEPT !.status = app'.status,
                              !.terminal_search_open = FALSE]
        /\ UNCHANGED <<terminal_session, os>>]_vars

\* A confirm of a prompt holding one space, after an earlier search for
\* "a": the warning, the prompt closed, the last query still "a".
C16_Witness ==
    /\ last.op = "terminal_search_next"
    /\ app.status = [kind |-> "Warn", text |-> "Search query is empty"]
    /\ app.terminal_search_query = <<32>> /\ ~app.terminal_search_open
    /\ app.terminal_last_search = <<97>>

\* ------------------------------------------------- copy mode: the cursor
\* One row step of the claim on (cursor row, scrollback), in a view of
\* `height` rows over an engine that holds `lines` lines of scrollback.
C17_Up(p, lines) ==
    IF p[1] > 0 THEN <<p[1] - 1, p[2]>> ELSE <<p[1], Min(p[2] + 1, lines)>>

C17_Down(p, height) ==
    IF p[1] < height - 1 THEN <<p[1] + 1, p[2]>>
    ELSE IF p[2] > 0 THEN <<p[1], p[2] - 1>>
    ELSE p

RECURSIVE C17_Steps(_, _, _, _)
C17_Steps(p, row_delta, height, lines) ==
    IF row_delta = 0 THEN p
    ELSE IF row_delta < 0
    THEN C17_Steps(C17_Up(p, lines), row_delta + 1, height, lines)
    ELSE C17_Steps(C17_Down(p, height), row_delta - 1, height, lines)

\* C17: terminal_move_cursor(row_delta, col_delta) takes |row_delta| steps
\* of one row.  A step up decrements the row, or at row 0 raises the
\* scrollback by one, up to what the engine holds, and leaves the cursor; a
\* step down increments the row, or at the last row of the view lowers the
\* scrollback by one if it is above 0 and else changes nothing.  The column
\* moves by col_delta and stays within 0..view width - 1.  The App and the
\* engine agree on the scrollback, and nothing else changes.
C17_MoveCursor ==
    [][last'.op = "terminal_move_cursor" =>
        LET p == C17_Steps(<<app.terminal_cursor_row, app.terminal_scrollback>>,
                           last'.arg[1], app.terminal_view_rows,
                           terminal_session.parser.lines)
            col == app.terminal_cursor_col + last'.arg[2]
        IN /\ app'.terminal_cursor_row = p[1]
           /\ app'.terminal_scrollback = p[2]
           /\ scrollback(terminal_session') = p[2]
           /\ app'.terminal_cursor_col =
                 IF col < 0 THEN 0
                 ELSE IF col > app.terminal_view_cols - 1
                 THEN app.terminal_view_cols - 1 ELSE col
           /\ app' = [app EXCEPT !.terminal_cursor_row = p[1],
                                 !.terminal_scrollback = p[2],
                                 !.terminal_cursor_col = app'.terminal_cursor_col]
           /\ terminal_session' =
                 [terminal_session EXCEPT !.parser.scrollback = p[2]]
           /\ UNCHANGED os]_vars

\* A move of two rows up from row 1 with nothing scrolled: the first step
\* reached row 0, the second scrolled the view by one line.
C17_Witness ==
    /\ last.op = "terminal_move_cursor" /\ last.arg = <<-2, 0, 1, 0>>
    /\ app.terminal_cursor_row = 0 /\ app.terminal_scrollback = 1

\* ------------------------------------------ copy mode: entering, leaving
\* C18: terminal_enter_copy_mode, whatever the state it is called in (an
\* anchor set, the prompt open, a query typed, copy mode already active),
\* leaves copy mode active, the cursor on the last row of the view at
\* column 0, no anchor, the prompt closed and its text empty; so does
\* Alt+c pressed in interactive mode.  The last query, the scrollback and
\* the session are as before.
C18_EnterCopyMode ==
    [][(\/ last'.op = "terminal_enter_copy_mode"
        \/ /\ last'.op = "handle_event" /\ last'.arg[1] = KEY_TERMINAL_COPY_MODE
           /\ ~app.terminal_copy_mode /\ ~app.terminal_search_open) =>
        /\ app'.terminal_copy_mode
        /\ app'.terminal_cursor_row = app.terminal_view_rows - 1
        /\ app'.terminal_cursor_col = 0
        /\ app'.terminal_selection_anchor = <<>>
        /\ ~app'.terminal_search_open
        /\ app'.terminal_search_query = <<>>
        /\ app' = [app EXCEPT !.terminal_copy_mode = TRUE,
                              !.terminal_cursor_row = app'.terminal_cursor_row,
                              !.terminal_cursor_col = 0,
                              !.terminal_selection_anchor = <<>>,
                              !.terminal_search_open = FALSE,
                              !.terminal_search_query = <<>>,
                              !.status = app'.status]
        /\ UNCHANGED <<terminal_session, os>>]_vars

\* Copy mode entered from a state with an anchor set, the prompt open and
\* two characters typed.
C18_Witness ==
    /\ last.op = "terminal_enter_copy_mode" /\ last.arg = <<1, 2, 1>>
    /\ app.terminal_copy_mode /\ app.terminal_selection_anchor = <<>>
    /\ app.terminal_search_query = <<>>

\* C19 as stated: terminal_exit_copy_mode called in copy mode leaves no
\* anchor, no text in the prompt, no last confirmed query and the prompt
\* closed, and the key pressed next is written to the shell.
C19_ExitClearsSearchState ==
    [][/\ (last'.op = "terminal_exit_copy_mode" /\ app.terminal_copy_mode) =>
            /\ ~app'.terminal_copy_mode
            /\ app'.terminal_selection_anchor = <<>>
            /\ app'.terminal_search_query = <<>>
            /\ app'.terminal_last_search = <<>>
            /\ ~app'.terminal_search_open
       /\ (/\ last.op = "terminal_exit_copy_mode" /\ last.arg[1] = 1
           /\ last'.op = "handle_event" /\ last'.arg[1] = 97) =>
            last'.wrote = <<97>>]_vars

\* C20 as stated: terminal_exit_copy_mode called in copy mode resets the
\* cursor: afterwards it holds the position of a new App, (0, 0), or the
\* one copy mode starts at, (last row of the view, 0), not the position
\* reached inside copy mode.
C20_ExitResetsCursor ==
    [][(last'.op = "terminal_exit_copy_mode" /\ app.terminal_copy_mode) =>
        <<app'.terminal_cursor_row, app'.terminal_cursor_col>>
            \in {<<0, 0>>, <<app.terminal_view_rows - 1, 0>>}]_vars

\* ---------------------------------------- copy mode: anchor, prompt, cancel
\* C21: terminal_toggle_selection_anchor sets the anchor to the cursor's
\* (row, col) when none is set, and clears it and reports "Selection
\* cleared" when one is set; it changes nothing else but the status, the
\* cursor least of all, so a toggle that follows a toggle which set the
\* anchor ends with no anchor.
C21_ToggleAnchor ==
    [][last'.op = "terminal_toggle_selection_anchor" =>
        /\ IF app.terminal_selection_anchor = <<>>
           THEN /\ app'.terminal_selection_anchor =
                     <<app.terminal_cursor_row, app.terminal_cursor_col>>
                /\ app'.status.kind = "Info"
           ELSE /\ app'.terminal_selection_anchor = <<>>
                /\ app'.status = [kind |-> "Info", text |-> "Selection cleared"]
        /\ app' = [app EXCEPT !.terminal_selection_anchor = app'.terminal_selection_anchor,
                              !.status = app'.status]
        /\ (last.op = "terminal_toggle_selection_anchor"
               /\ app.terminal_selection_anchor # <<>>) =>
              app'.terminal_selection_anchor = <<>>
        /\ UNCHANGED <<terminal_session, os>>]_vars

\* A toggle that cleared an anchor in copy mode, the cursor away from where
\* copy mode put it.
C21_Witness ==
    /\ last.op = "terminal_toggle_selection_anchor"
    /\ app.status.text = "Selection cleared" /\ app.terminal_selection_anchor = <<>>
    /\ app.terminal_copy_mode
    /\ <<app.terminal_cursor_row, app.terminal_cursor_col>> = <<1, 1>>

\* C22: terminal_open_search opens the prompt and fills it with the last
\* confirmed query, changing nothing else.  The last confirmed query is
\* empty at first and changes only in a confirm whose trimmed query is not
\* empty, which stores that trimmed query; typing, deleting, cancelling and
\* confirming a blank prompt leave it as it is.
C22_OpenSearchPrefills ==
    /\ app.terminal_last_search = <<>>
    /\ [][/\ last'.op = "terminal_open_search" =>
               /\ app'.terminal_search_open
               /\ app'.terminal_search_query = app.terminal_last_search
               /\ app' = [app EXCEPT !.terminal_search_open = TRUE,
                                     !.terminal_search_query = app.terminal_last_search]
           /\ IF last'.op = "terminal_search_next" /\ C14_Query # <<>>
              THEN app'.terminal_last_search = C14_Query
              ELSE app'.terminal_last_search = app.terminal_last_search]_vars

\* The prompt opened after a search for "a" and a cancelled edit: it holds
\* "a" again.
C22_Witness ==
    /\ last.op = "terminal_open_search" /\ app.terminal_search_open
    /\ app.status.text = "Search cancelled"
    /\ app.terminal_search_query = <<97>> /\ app.terminal_last_search = <<97>>

\* C23: terminal_cancel_search closes the prompt, empties its text and
\* reports "Search cancelled"; the cursor, the anchor, the scrollback, the
\* last confirmed query, copy mode and the session are as before.  Esc
\* pressed while the prompt is open does exactly this.
C23_CancelSearch ==
    [][LET cancelled == [app EXCEPT !.terminal_search_open = FALSE,
                                    !.terminal_search_query = <<>>,
                                    !.status = [kind |-> "Info",
                                                text |-> "Search cancelled"]]
       IN /\ last'.op = "terminal_cancel_search" =>
               (app' = cancelled /\ UNCHANGED <<terminal_session, os>>)
          /\ (app.terminal_open /\ app.terminal_search_open) =>
               LET w == handle_event(World(app, terminal_session, os),
                                     KeyEvent(Key("Esc", 0, {})), EnvOk).w
               IN w.app = cancelled /\ w.ts = terminal_session /\ w.os = os]_vars

\* A cancel in copy mode that threw away two typed characters, with an
\* anchor set and "a" the last confirmed query.
C23_Witness ==
    /\ last.op = "terminal_cancel_search" /\ last.arg[1] = 2
    /\ app.terminal_copy_mode /\ ~app.terminal_search_open
    /\ app.terminal_search_query = <<>>
    /\ app.terminal_selection_anchor # <<>> /\ app.terminal_last_search = <<97>>

\* ------------------------------------------------------------ key encoding
\* The table of the claim: (character, C0 byte).
C24_Table ==
    {<<c, c - 96>> : c \in 97..122} \cup {<<c, c - 64>> : c \in 65..90}
    \cup {<<32, 0>>, <<50, 0>>, <<64, 0>>, <<51, 27>>, <<91, 27>>,
          <<52, 28>>, <<92, 28>>, <<53, 29>>, <<93, 29>>, <<54, 30>>, <<94, 30>>,
          <<55, 31>>, <<47, 31>>, <<95, 31>>, <<56, 127>>, <<63, 127>>}

\* C24: for a character key with CTRL held, encode_key_event returns the
\* one byte the table gives the character (after an ESC if ALT is held
\* too), and for a character the table does not list it returns None,
\* with or without ALT: send_key then writes nothing and returns Ok.
C24_CtrlTable ==
    (last.op = "send_key" /\ last.key.code = "Char" /\ "CONTROL" \in last.key.mods) =>
        LET hits == {p \in C24_Table : p[1] = last.key.ch} IN
        IF hits = {}
        THEN last.n = 0 /\ last.text = <<>> /\ last.wrote = <<>> /\ last.ret = "Ok"
        ELSE \A p \in hits :
               /\ last.n = 1
               /\ last.text = IF "ALT" \in last.key.mods THEN <<27, p[2]>>
                               ELSE <<p[2]>>

\* CTRL+ALT+'~' was sent: no byte was produced and none written.
C24_Witness ==
    /\ last.op = "send_key"
    /\ last.key = Key("Char", 126, {"CONTROL", "ALT"})
    /\ last.n = 0 /\ last.wrote = <<>>

\* C25: for a key pressed with ALT, encode_key_event returns Some(ESC ++ s)
\* when the same key with the same modifiers but ALT gives Some(s), and None
\* when that gives None: ALT prepends one byte 0x1B and changes nothing
\* else.
C25_MetaLaw ==
    (last.op = "send_key" /\ "ALT" \in last.key.mods) =>
        LET plain == encode_key_event([last.key EXCEPT !.mods = @ \ {"ALT"}]) IN
        IF plain.some
        THEN last.n = 1 /\ last.text = <<27>> \o plain.bytes
        ELSE last.n = 0 /\ last.text = <<>>

\* ALT+Up was sent: ESC, then the three bytes of Up.
C25_Witness ==
    /\ last.op = "send_key" /\ last.key = Key("Up", 0, {"ALT"})
    /\ last.text = <<27, 27, 91, 65>> /\ last.wrote = last.text

\* The sequences the claim lists for the named keys; Tab is apart.
C26_Listed(key) ==
    CASE key.code = "Enter" -> <<13>>
      [] key.code = "Backspace" -> <<127>>
      [] key.code = "Esc" -> <<27>>
      [] key.code = "Up" -> <<27, 91, 65>>
      [] key.code = "Down" -> <<27, 91, 66>>
      [] key.code = "Right" -> <<27, 91, 67>>
      [] key.code = "Left" -> <<27, 91, 68>>
      [] key.code = "Home" -> <<27, 91, 72>>
      [] key.code = "End" -> <<27, 91, 70>>
      [] key.code = "PageUp" -> <<27, 91, 53, 126>>
      [] key.code = "PageDown" -> <<27, 91, 54, 126>>
      [] key.code = "Insert" -> <<27, 91, 50, 126>>
      [] key.code = "Delete" -> <<27, 91, 51, 126>>
      [] key.code = "F" ->
           <<<<27, 79, 80>>, <<27, 79, 81>>, <<27, 79, 82>>, <<27, 79, 83>>,
             <<27, 91, 49, 53, 126>>, <<27, 91, 49, 55, 126>>,
             <<27, 91, 49, 56, 126>>, <<27, 91, 49, 57, 126>>,
             <<27, 91, 50, 48, 126>>, <<27, 91, 50, 49, 126>>,
             <<27, 91, 50, 51, 126>>, <<27, 91, 50, 52, 126>>>>[key.ch]
      [] key.code = "Tab" ->
           IF "SHIFT" \in key.mods THEN <<27, 91, 90>> ELSE <<9>>

C26_Named(key) ==
    \/ key.code \in {"Enter", "Tab", "Backspace", "Esc", "Up", "Down", "Left", "Right",
                     "Home", "End", "PageUp", "PageDown", "Insert", "Delete"}
    \/ key.code = "F" /\ key.ch \in 1..12

\* C26: for Enter, Tab, Backspace, Esc, the arrows, Home, End, PageUp,
\* PageDown, Insert, Delete and F1 to F12, encode_key_event returns the
\* listed sequence (after an ESC if ALT is held) whether CTRL is held or
\* not, and the same as for the key with CTRL added or removed; Tab gives
\* ESC [ Z exactly when SHIFT is held and one tab byte otherwise.
C26_NamedKeys ==
    (last.op = "send_key" /\ C26_Named(last.key)) =>
        /\ last.n = 1
        /\ last.text = (IF "ALT" \in last.key.mods THEN <<27>> ELSE <<>>)
                          \o C26_Listed(last.key)
        /\ encode_key_event([last.key EXCEPT !.mods = @ \cup {"CONTROL"}])
             = Some(last.text)
        /\ encode_key_event([last.key EXCEPT !.mods = @ \ {"CONTROL"}])
             = Some(last.text)

\* CTRL+SHIFT+Tab was sent: ESC [ Z.
C26_Witness ==
    /\ last.op = "send_key" /\ last.key = Key("Tab", 0, {"CONTROL", "SHIFT"})
    /\ last.text = <<27, 91, 90>> /\ last.wrote = last.text

\* A printable character: not a C0 control character and not DEL.
C27_Printable(ch) == ch >= 32 /\ ch # 127

\* The keys the encoding rules list: a printable character with no
\* modifier or ALT alone, a character of the CTRL table with CTRL, and the
\* named keys of C26.
C27_Listed(key) ==
    \/ key.code = "Char" /\ C27_Printable(key.ch) /\ key.mods \subseteq {"ALT"}
    \/ /\ key.code = "Char" /\ "CONTROL" \in key.mods
       /\ \E p \in C24_Table : p[1] = key.ch
    \/ C26_Named(key)

\* C27: for every key that the encoding rules do not list,
\* encode_key_event returns None and send_key writes nothing.
C27_OnlyListed ==
    (last.op = "send_key" /\ ~C27_Listed(last.key)) =>
        last.n = 0 /\ last.wrote = <<>>

\* What the code does: bytes are produced for every character key without
\* CTRL, whatever else is held, for BackTab, and for the keys of C27_Listed,
\* and for no other key.
C27_CodeEncodes ==
    last.op = "send_key" =>
        (last.n = 1 <=>
            \/ C27_Listed(last.key)
            \/ last.key.code = "BackTab"
            \/ last.key.code = "Char" /\ "CONTROL" \notin last.key.mods)

\* C28: after every scroll_terminal, terminal_move_cursor, mouse wheel
\* event, tick, open_terminal and close_terminal, the engine's scrollback
\* offset is between 0 and the number of lines it has buffered, and
\* App.terminal_scrollback equals it (and is 0 when there is no session).
C28_ScrollbackInSync ==
    /\ app.terminal_scrollback >= 0
    /\ IF terminal_session.id # 0
       THEN /\ scrollback(terminal_session) >= 0
            /\ scrollback(terminal_session) <= terminal_session.parser.lines
            /\ app.terminal_scrollback = scrollback(terminal_session)
       ELSE app.terminal_scrollback = 0

\* What the code does: every step other than an open_terminal that returns
\* an error keeps the offsets in bounds and in sync.
C28_SyncKeptButByFailedOpen ==
    [][(C28_ScrollbackInSync /\ ~(last'.op = "open_terminal" /\ last'.ret = "Err"))
          => C28_ScrollbackInSync']_vars

\* C29: an iteration of the reader thread's loop ends the thread exactly
\* when read returned Ok(0), an error other than Interrupted, or data that
\* could not be sent because the session is gone; on Interrupted the thread
\* goes on.  Once the session is dropped, its reader thread, which nobody
\* joins, is eventually done.
C29_ReaderExits ==
    /\ [][\A id \in Ids : \A outcome \in {"data", "eof", "interrupted", "error"} :
            ReaderLoop(id, outcome) =>
               (os'.reader[id] = "done" <=>
                   \/ outcome \in {"eof", "error"}
                   \/ outcome = "data" /\ terminal_session.id # id)]_vars
    /\ \A id \in Ids :
         (os.reader[id] = "running" /\ terminal_session.id # id)
            ~> (os.reader[id] = "done")

\* The session was dropped while its reader thread ran, and the thread has
\* ended on an error.
C29_Witness ==
    /\ terminal_session.id = 0 /\ 1 \in os.killed
    /\ os.reader[1] = "done"
    /\ last.op = "read" /\ last.n = 1 /\ last.ret = "error"

\* The platform's ordered candidates and its fallback, as the claim has them.
C30_Candidates(windows) ==
    IF windows
    THEN <<<<67, 58, 47, 87, 105, 110, 100, 111, 119, 115, 47, 83, 121, 115, 116, 101, 109, 51, 50, 47, 87, 105, 110, 100, 111, 119, 115, 80, 111, 119, 101, 114, 83, 104, 101, 108, 108, 47, 118, 49, 46, 48, 47, 112, 111, 119, 101, 114, 115, 104, 101, 108, 108, 46, 101, 120, 101>>,
           <<67, 58, 47, 87, 105, 110, 100, 111, 119, 115, 47, 83, 121, 115, 116, 101, 109, 51, 50, 47, 99, 109, 100, 46, 101, 120, 101>>>>
    ELSE <<<<47, 98, 105, 110, 47, 122, 115, 104>>, <<47, 98, 105, 110, 47, 98, 97, 115, 104>>>>

C30_Fallback(windows) ==
    IF windows THEN <<99, 109, 100, 46, 101, 120, 101>> ELSE <<47, 98, 105, 110, 47, 115, 104>>

\* C30: shell_command returns, for every environment and file system, the
\* shell the environment declares if the variable is set, not empty and the
\* path exists; otherwise the first existing path of the platform's
\* candidates; otherwise the platform's fallback, whether it exists or not.
\* The call is possible in every state: it never fails.
C30_ShellResolution ==
    /\ last.op = "init" => ENABLED ShellCommand
    /\ last.op = "shell_command" =>
          LET env == last.arg[1]
              exists == last.arg[2]
              windows == last.arg[3]
              c == C30_Candidates(windows)
          IN
          last.ret.program =
              IF env.var # "unset" /\ env.value # <<>> /\ env.value \in exists
              THEN env.value
              ELSE IF c[1] \in exists THEN c[1]
              ELSE IF c[2] \in exists THEN c[2]
              ELSE C30_Fallback(windows)

\* What the code does: the same, with a variable whose value is not Unicode
\* treated as one that is not set.
C30_UnicodeShellResolution ==
    /\ last.op = "init" => ENABLED ShellCommand
    /\ last.op = "shell_command" =>
          LET env == last.arg[1]
              exists == last.arg[2]
              windows == last.arg[3]
              c == C30_Candidates(windows)
          IN
          last.ret.program =
              IF env.var = "value" /\ env.value # <<>> /\ env.value \in exists
              THEN env.value
              ELSE IF c[1] \in exists THEN c[1]
              ELSE IF c[2] \in exists THEN c[2]
              ELSE C30_Fallback(windows)

\* The family of a program by its name in lower case: PowerShell
\* (powershell.exe, pwsh.exe), command prompt (cmd.exe), a unix-like shell
\* (a name ending in sh, or in sh.exe), or not recognized.
C31_Family(program) ==
    LET lower == [i \in 1..Len(program) |->
                     IF program[i] \in 65..90 THEN program[i] + 32 ELSE program[i]]
        ends_with(suffix) ==
            /\ Len(suffix) <= Len(lower)
            /\ SubSeq(lower, (Len(lower) - Len(suffix)) + 1, Len(lower)) = suffix
    IN
    IF ends_with(<<112, 111, 119, 101, 114, 115, 104, 101, 108, 108, 46, 101, 120, 101>>) \/ ends_with(<<112, 119, 115, 104, 46, 101, 120, 101>>) THEN "powershell"
    ELSE IF ends_with(<<99, 109, 100, 46, 101, 120, 101>>) THEN "cmd"
    ELSE IF ends_with(<<115, 104>>) \/ ends_with(<<115, 104, 46, 101, 120, 101>>) THEN "unix"
    ELSE "other"

\* C31: the arguments shell_command returns depend on the resolved program
\* alone, on every platform: -i for a unix-like shell, -NoLogo -NoExit for a
\* PowerShell, /K for a command prompt, none for a program that is not
\* recognized.
C31_ArgsByProgram ==
    last.op = "shell_command" =>
        last.ret.args =
            CASE C31_Family(last.ret.program) = "unix" -> <<"-i">>
              [] C31_Family(last.ret.program) = "powershell" -> <<"-NoLogo", "-NoExit">>
              [] C31_Family(last.ret.program) = "cmd" -> <<"/K">>
              [] OTHER -> <<>>

\* What the code does: on a platform that is not Windows every program gets
\* -i; on Windows the arguments go by the family, and a unix-like shell is
\* not recognized.
C31_ArgsByPlatform ==
    last.op = "shell_command" =>
        last.ret.args =
            IF ~last.arg[3] THEN <<"-i">>
            ELSE CASE C31_Family(last.ret.program) = "powershell" -> <<"-NoLogo", "-NoExit">>
                   [] C31_Family(last.ret.program) = "cmd" -> <<"/K">>
                   [] OTHER -> <<>>

\* C32: undo confirmation is a modal two-step flow.  With the setting on and
\* a file selected, undo_selected_to_mainline records the pending target and
\* reverts nothing.  While a target is pending, handle_event returns true for
\* every event and run_app goes on; y or Y reverts the pending path (or the
\* revert fails and the status is an error) and clears the pending target;
\* n, N or Esc clears it and reverts nothing; every other event changes
\* nothing and reaches no handler.  After cancel nothing is pending.
C32_Target ==
    IF app.focus = "Unstaged" THEN selected_path(app.unstaged, app.unstaged_selected)
    ELSE selected_path(app.staged, app.staged_selected)

C32_UndoConfirmation ==
    [][/\ (/\ last'.op = "undo_selected_to_mainline"
           /\ app.confirm_undo_to_mainline /\ C32_Target # <<>>) =>
             /\ app'.pending_undo_confirmation = C32_Target
             /\ last'.git = <<>>
             /\ app'.unstaged = app.unstaged /\ app'.staged = app.staged
       /\ (last'.op = "handle_event" /\ app.pending_undo_confirmation # <<>>) =>
             /\ ~last'.quit /\ pc' = "main"
             /\ terminal_session' = terminal_session /\ os' = os
             /\ IF last'.text = <<"Key">>
                   /\ (IsChar(last'.key, 121) \/ IsChar(last'.key, 89))
                THEN /\ app'.pending_undo_confirmation = <<>>
                     /\ last'.call = "confirm_pending_undo_to_mainline"
                     /\ \/ last'.git = app.pending_undo_confirmation
                        \/ last'.failed /\ app'.status.kind = "Error"
                ELSE IF last'.text = <<"Key">>
                        /\ (last'.key.code = "Esc" \/ IsChar(last'.key, 110)
                            \/ IsChar(last'.key, 78))
                THEN /\ app' = [app EXCEPT !.pending_undo_confirmation = <<>>,
                                          !.status = [kind |-> "Info",
                                                      text |-> "Undo cancelled"]]
                     /\ last'.call = "cancel_pending_undo_to_mainline"
                     /\ last'.git = <<>>
                ELSE /\ app' = app
                     /\ last'.call = "none" /\ last'.git = <<>>
       /\ last'.op = "cancel_pending_undo_to_mainline" =>
             app'.pending_undo_confirmation = <<>>]_vars

\* A pending revert of a file was confirmed with y while the terminal view
\* was open, and the file has left the lists.
C32_Witness ==
    /\ last.op = "handle_event" /\ last.call = "confirm_pending_undo_to_mainline"
    /\ last.git # <<>> /\ ~last.failed
    /\ app.terminal_open
    /\ app.pending_undo_confirmation = <<>>
    /\ \A i \in 1..Len(app.unstaged) : app.unstaged[i] # last.git[1]

\* C33: a call of switch_focus, made directly or by Tab through
\* handle_event, moves the focus to the other list when both lists hold
\* files, and a second call moves it back; when the list switched to is
\* empty and the other is not, the focus is on the non-empty list afterwards;
\* after the call a focused list that holds files has a selected index.
C33_SwitchFocus ==
    [][(last'.op = "switch_focus" \/ last'.call = "switch_focus") =>
          LET other == IF app.focus = "Unstaged" THEN "Staged" ELSE "Unstaged"
              len(a, f) == IF f = "Unstaged" THEN Len(a.unstaged) ELSE Len(a.staged)
              sel(a, f) == IF f = "Unstaged" THEN a.unstaged_selected ELSE a.staged_selected
              again == switch_focus(World(app', terminal_session', os'), EnvOk).app
          IN /\ (len(app, "Unstaged") > 0 /\ len(app, "Staged") > 0) =>
                   app'.focus = other /\ again.focus = app.focus
             /\ (len(app, other) = 0 /\ len(app, app.focus) > 0) =>
                   app'.focus = app.focus
             /\ len(app', app'.focus) > 0 =>
                   /\ sel(app', app'.focus) # <<>>
                   /\ sel(app', app'.focus)[1] < len(app', app'.focus)
             /\ app'.unstaged = app.unstaged /\ app'.staged = app.staged]_vars

\* The focus was on the staged list, the only one with files, and
\* switch_focus left it there.
C33_Witness ==
    /\ last.op = "switch_focus"
    /\ app.focus = "Staged" /\ app.unstaged = <<>> /\ app.staged # <<>>

\* Tab moved the focus to the staged list while both lists hold files.
C33_WitnessToggle ==
    /\ last.call = "switch_focus" /\ last.key.code = "Tab"
    /\ app.focus = "Staged" /\ app.unstaged # <<>> /\ app.staged # <<>>

\* C40: handle_event returns false exactly for a press of the key q, with
\* any modifiers, while no undo confirmation is pending and the terminal
\* view is closed, whatever the settings panel and the git panel and its
\* prompts are doing; run_app then ends.  While the terminal view is open
\* handle_event returns true for every event.
C40_QuitCondition ==
    [][last'.op = "handle_event" =>
          /\ last'.quit <=> /\ last'.text = <<"Key">>
                            /\ last'.key.code = "Char" /\ last'.key.ch = KEY_QUIT
                            /\ app.pending_undo_confirmation = <<>>
                            /\ ~app.terminal_open
          /\ last'.quit <=> pc' = "done"
          /\ last'.quit => app' = app
          /\ app.terminal_open => ~last'.quit]_vars

\* Ctrl+q ended run_app while the git panel was asking for a branch name.
C40_Witness ==
    /\ last.op = "handle_event" /\ last.quit /\ pc = "done"
    /\ last.key = Key("Char", KEY_QUIT, {"CONTROL"})
    /\ app.git_panel_open /\ app.git_panel_mode = "CreateBranch"

\* q was sent to the shell of the open terminal view and run_app goes on.
C40_WitnessTerminal ==
    /\ last.op = "handle_event" /\ ~last.quit /\ pc = "main"
    /\ last.key = Key("Char", KEY_QUIT, {}) /\ last.text = <<"Key">>
    /\ app.terminal_open /\ last.wrote = <<KEY_QUIT>>

\* C34: find_query_in_line(line, q, start) returns the smallest index
\* i >= start at which the characters of q stand in line, and None when
\* there is no such index, when q is empty or when q is longer than line;
\* no start, inside or beyond the line, makes it index out of bounds.
C34_Matches(line, q, from) ==
    {i \in from..(Len(line) - Len(q)) : SubSeq(line, i + 1, i + Len(q)) = q}

C34_FindQueryInLine ==
    last.op = "find_query_in_line" =>
       LET line == last.arg[1]
           q == last.arg[2]
           found == IF q = <<>> THEN {} ELSE C34_Matches(line, q, last.arg[3])
       IN /\ last.n # -2
          /\ found = {} => last.n = -1
          /\ found # {} => last.n \in found /\ \A i \in found : last.n <= i
          /\ (q = <<>> \/ Len(q) > Len(line)) => last.n = -1

\* "abcdef", "cd" from column 0: Some(2).
C34_Witness ==
    /\ last.op = "find_query_in_line"
    /\ last.arg = <<<<97, 98, 99, 100, 101, 102>>, <<99, 100>>, 0>>
    /\ last.n = 2

\* A query longer than the line, from a column beyond the line: None.
C34_WitnessBeyond ==
    /\ last.op = "find_query_in_line"
    /\ Len(last.arg[2]) > Len(last.arg[1]) /\ last.arg[3] > Len(last.arg[1])
    /\ last.n = -1

\* C35: whatever the owner does (entering and leaving copy mode, moves by
\* any deltas, scrolls, views of any size, a view of no rows or no columns,
\* searches, closing and opening the terminal), the copy cursor stays inside
\* the view: row <= max(rows - 1, 0) and col <= max(cols - 1, 0).
C35_CursorInView ==
    /\ app.terminal_cursor_row >= 0 /\ app.terminal_cursor_col >= 0
    /\ app.terminal_cursor_row <= saturating_sub(app.terminal_view_rows, 1)
    /\ app.terminal_cursor_col <= saturating_sub(app.terminal_view_cols, 1)

\* In copy mode with a selection under way the view has shrunk to one cell
\* after a search: the cursor is on that cell.
C35_Witness ==
    /\ app.terminal_copy_mode /\ app.terminal_selection_anchor = <<2, 1>>
    /\ app.terminal_last_search # <<>>
    /\ app.terminal_view_rows = 1 /\ app.terminal_view_cols = 1
    /\ app.terminal_cursor_row = 0 /\ app.terminal_cursor_col = 0

\* The same with a view of no rows and no columns.
C35_WitnessZero ==
    /\ app.terminal_copy_mode /\ app.terminal_selection_anchor = <<2, 1>>
    /\ app.terminal_view_rows = 0 /\ app.terminal_view_cols = 0
    /\ app.terminal_cursor_row = 0 /\ app.terminal_cursor_col = 0

\* C37: the selection anchor is changed by the selection toggle, a yank that
\* succeeds, entering and leaving copy mode, and opening and closing the
\* terminal, and by nothing else: a move of the cursor (over the edge of the
\* view too), a scroll by any delta, the mouse wheel, a view of another size,
\* a tick with new output and a confirmed search leave it as it is, in every
\* state the owner can reach.  So the anchor keeps naming its cell of the
\* view while the text scrolls under it, and it may lie outside a view that
\* has shrunk.
C37_Changers ==
    {"terminal_toggle_selection_anchor", "terminal_yank_selection",
     "terminal_enter_copy_mode", "terminal_exit_copy_mode",
     "open_terminal", "close_terminal"}

C37_AnchorKept ==
    \A c \in ViewCalls \cup {[op |-> "scroll_terminal", a |-> delta, b |-> 0] :
                                delta \in {-10000, -3, -1, 1, 10, 10000}} :
       LET v == view_call(World(app, terminal_session, os), c) IN
       (c.op \notin C37_Changers \/ (c.op = "terminal_yank_selection" /\ v.ret = "Err")) =>
          v.app.terminal_selection_anchor = app.terminal_selection_anchor

\* The anchor was set on the last row and column of the 3x2 view; the text
\* has scrolled and the view has shrunk to one cell, which the cursor is on.
C37_Witness ==
    /\ app.terminal_copy_mode /\ app.terminal_selection_anchor = <<2, 1>>
    /\ app.terminal_scrollback > 0
    /\ app.terminal_view_rows = 1 /\ app.terminal_view_cols = 1
    /\ app.terminal_cursor_row = 0 /\ app.terminal_cursor_col = 0
    /\ terminal_session.parser.fed # <<>>

\* C36: in every state run_app reaches through handle_event and tick, an
\* open search prompt means copy mode, copy mode means an open terminal
\* view, and a selection anchor is set only in copy mode.
C36_ModesNest ==
    /\ app.terminal_search_open => app.terminal_copy_mode
    /\ app.terminal_copy_mode => app.terminal_open
    /\ app.terminal_selection_anchor # <<>> => app.terminal_copy_mode

\* The prompt is open with a text in it, in copy mode with an anchor set.
C36_Witness ==
    /\ last.op = "handle_event"
    /\ app.terminal_search_open /\ app.terminal_search_query # <<>>
    /\ app.terminal_copy_mode /\ app.terminal_open
    /\ app.terminal_selection_anchor # <<>>

\* The close chord was pressed with the prompt open and an anchor set: the
\* view is closed and the three are gone.
C36_WitnessClosed ==
    /\ last.op = "handle_event" /\ last.arg[1] = 93
    /\ ~app.terminal_open /\ ~app.terminal_copy_mode /\ ~app.terminal_search_open
    /\ app.terminal_selection_anchor = <<>>
    /\ app.terminal_last_search # <<>>

\* The occurrences of q that start on the cursor's row at or before the
\* cursor's column.
C38_Unseen(rows, q) ==
    {p \in (0..(Len(rows) - 1)) \X (0..CopyCols) :
        /\ C14_Occurs(rows, q, p[1], p[2])
        /\ p[1] = app.terminal_cursor_row /\ p[2] <= app.terminal_cursor_col}

\* C38: a confirm never lands on an occurrence that starts on the cursor's
\* row at or before the cursor's column, not even after wrapping; when every
\* occurrence of the query in the rows starts there, the confirm reports no
\* match and leaves the cursor, while the query becomes the last query and
\* the prompt is closed.
C38_CursorRowPrefixSkipped ==
    [][(last'.op = "terminal_search_next" /\ C14_Query # <<>>) =>
          LET rows == plain_rows(terminal_session)
              q == C14_Query
              all == {p \in (0..(Len(rows) - 1)) \X (0..CopyCols) :
                         C14_Occurs(rows, q, p[1], p[2])}
          IN /\ app'.status.text = "Found" =>
                   <<app'.terminal_cursor_row, app'.terminal_cursor_col>>
                      \in all \ C38_Unseen(rows, q)
             /\ all \subseteq C38_Unseen(rows, q) =>
                   /\ app'.status = [kind |-> "Warn", text |-> "No match"]
                   /\ app'.terminal_cursor_row = app.terminal_cursor_row
                   /\ app'.terminal_cursor_col = app.terminal_cursor_col
                   /\ app'.terminal_last_search = q
                   /\ ~app'.terminal_search_open
                   /\ app' = [app EXCEPT !.status = app'.status,
                                         !.terminal_last_search = q,
                                         !.terminal_search_open = FALSE]]_vars

\* The prompt held " a" and the cursor sat on the only "a" of the rows: no
\* match, the cursor where it was, "a" the last query, the prompt closed.
C38_Witness ==
    /\ last.op = "terminal_search_next"
    /\ app.status = [kind |-> "Warn", text |-> "No match"]
    /\ app.terminal_search_query = <<32, 97>> /\ app.terminal_last_search = <<97>>
    /\ ~app.terminal_search_open
    /\ last.arg = <<app.terminal_cursor_row, app.terminal_cursor_col>>
    /\ C38_Unseen(plain_rows(terminal_session), <<97>>)
          = {<<app.terminal_cursor_row, app.terminal_cursor_col>>}
    /\ \A r \in 0..(CopyRows - 1), c \in 0..CopyCols :
          C14_Occurs(plain_rows(terminal_session), <<97>>, r, c) =>
             r = app.terminal_cursor_row /\ c = app.terminal_cursor_col

\* C39: when run_app draws a frame with the terminal view open, a session
\* installed, a view of at least one row and one column, and update_layout
\* reporting no error, the session's stored rows and columns, its pty and
\* its engine have the size of the view, and so has the App's viewport; this
\* holds for the first frame after open_terminal and after a restart of an
\* exited shell, which start the session at 24x80.  A frame whose resize
\* failed shows an error status.
C39_SizesInSync ==
    [][last'.op = "update_layout" =>
          /\ (/\ app'.terminal_open /\ terminal_session'.id # 0
              /\ last'.arg[1] > 0 /\ last'.arg[2] > 0
              /\ ~last'.failed) =>
                /\ <<terminal_session'.rows, terminal_session'.cols>> = last'.arg
                /\ <<terminal_session'.master.rows, terminal_session'.master.cols>>
                      = last'.arg
                /\ <<terminal_session'.parser.rows, terminal_session'.parser.cols>>
                      = last'.arg
                /\ <<app'.terminal_view_rows, app'.terminal_view_cols>> = last'.arg
          /\ last'.failed => app'.status.kind = "Error"]_vars

\* The first frame after the restart of an exited shell: the second session,
\* started at 24x80 and fed nothing yet, was resized to the 3x2 view.
C39_Witness ==
    /\ last.op = "update_layout" /\ last.arg = <<3, 2>> /\ last.os_resize
    /\ ~last.failed
    /\ app.terminal_open /\ terminal_session.id = 2
    /\ terminal_session.parser.fed = <<>>
    /\ terminal_session.rows = 3 /\ terminal_session.cols = 2

\* A frame on a view of 24x80 right after open_terminal: nothing to resize.
C39_WitnessSameSize ==
    /\ last.op = "update_layout" /\ last.arg = <<StartRows, StartCols>>
    /\ ~last.os_resize /\ app.terminal_open /\ terminal_session.id = 1
    /\ terminal_session.rows = StartRows /\ terminal_session.cols = StartCols
====
